---- MODULE Spec2Model ----
(***************************************************************************)
(* The HAP command-line client of test_hap_volume.py as a state machine:   *)
(* one command (pair / list / get / set) runs at a time against an         *)
(* accessory that is the environment.  Cryptography is symbolic: a key, a  *)
(* signature or a ciphertext is the term it was built from, and            *)
(* verification / decryption succeeds exactly when the terms match.        *)
(***************************************************************************)
EXTENDS Integers, Sequences, FiniteSets, TLC

VARIABLES
    targets,    \* the accessories the command line addresses
    pairings,   \* contents of PAIRING_FILE: key -> pairing record
    cmd,        \* the running command and its arguments
    pc,         \* position of the command's coroutine
    session,    \* the HapSession object of the command
    ret,        \* request site whose http_request is in progress
    acc,        \* what the response reader has consumed so far
    resp,       \* body returned by the last http_request
    hs,         \* locals of pair_setup / pair_verify / the command
    exc,        \* exception that ended the command ("none" if none)
    result,     \* how the command ended
    loaded,     \* the dict returned by load_pairings()
    wire,       \* history: requests written on the connection, in order
    hist,       \* history: bodies returned by http_request, in order
    recvLog,    \* history: key and receive counter of each accepted frame
    broken,     \* history: a read on the established session failed
    outstanding,\* history: a request was written and its response not read
    excess,     \* history: the last response had more body bytes than declared
    verified,   \* history: pair_verify returned normally on this session
    pairings0,  \* history: the pairing file when the command started
    accessory,  \* the accessory's characteristic values, when it keeps them
    aeadLog,    \* history: key and nonce of each handshake encryption / decryption
    conns,      \* history: connections the command opened and closed
    returned,   \* history: what the reader had when the last http_request returned
    link,       \* a sender's frames on their way to a receiver with the same key
    probe,      \* an accessory document given to _find_volume, and the answer
    bridge,     \* the AppleTVBridge object and its reconnection tasks
    manager,    \* the CLIAirplayManager object, its subprocesses and monitor tasks
    flow,       \* a config flow started by a zeroconf discovery
    entry,      \* a config entry: its setup and the polls of its coordinator
    pairers     \* two processes running cmd_pair on the same pairing file

\* the objects of the Home Assistant integration other than the bridge
rest == <<manager, flow, entry, pairers>>

\* what the command-line client leaves alone
other == <<link, probe, bridge, rest>>

vars == <<targets, pairings, cmd, pc, session, ret, acc, resp, hs, exc, result, loaded,
          wire, hist, recvLog, broken, outstanding, excess, verified, pairings0,
          accessory, aeadLog, conns, returned, link, probe, bridge, manager, flow,
          entry, pairers>>

-----------------------------------------------------------------------------
(* Bounds of the model *)

NumKeys == 2          \* distinct values a freshly generated key can take
MaxRespFrames == 2    \* frames the accessory sends for one response

(* Program constants *)

ChunkSize == 1024     \* plaintext bytes per frame, _encrypt
ErrorStatus == 400    \* first HTTP status _read_http_response rejects

Speaker == [host |-> "10.0.42.79", port |-> 33213]
Endpoints == {Speaker, [host |-> "10.0.42.80", port |-> 7000]}
Pins == {"822-34-842", "111-22-333"}
Values == {30, 45}
LTKeys == 1..NumKeys
EphKeys == {"c1"}
AccKeys == {"ltpk-A", "ltpk-X"}
AccIds == {"AA:BB:CC"}
ReqLens == {60, ChunkSize + 1}
Statuses == {200, ErrorStatus - 1, ErrorStatus}
FrameStatuses == {200, ErrorStatus}
ContentLengths == {0, 2}
FrameBody == 0..2

Min(a, b) == IF a < b THEN a ELSE b

-----------------------------------------------------------------------------
(* Symbolic cryptography *)

NoSecret == [kind |-> "none", a |-> "", b |-> "", c |-> ""]
OtherSecret == [kind |-> "other", a |-> "", b |-> "", c |-> ""]
NoKey == [ikm |-> NoSecret, salt |-> "", info |-> ""]

hkdf_derive(input_key, salt, info) == [ikm |-> input_key, salt |-> salt, info |-> info]

OtherKey == hkdf_derive(OtherSecret, "x", "x")

\* SrpClient: the session key and the proof the server has to present
SrpSessionKey(pin, salt, server_pk) == [kind |-> "srp", a |-> pin, b |-> salt, c |-> server_pk]
SrpServerProof(key) == [of |-> key]
verify_servers_proof_bytes(key, proof) == proof = SrpServerProof(key)

\* X25519: our_key.exchange(server_pk)
PublicOf(eph) == <<"pub", eph>>
Exchange(our_key, server_pk) == [kind |-> "dh", a |-> our_key, b |-> server_pk, c |-> ""]

\* ChaCha20Poly1305 with empty associated data (handshake messages)
AeadEncrypt(key, nonce, pt) == [key |-> key, nonce |-> nonce, pt |-> pt]
AeadOpens(key, nonce, ct) == ct.key = key /\ ct.nonce = nonce

\* Ed25519
Sign(by, msg) == [by |-> by, msg |-> msg]
Ed25519Verify(ltpk, sig, msg) == sig.by = ltpk /\ sig.msg = msg

\* bytes.hex() and bytes.fromhex()
Hex(b) == <<"hex", b>>
FromHex(h) == h[2]

\* the 12-byte nonce literals of the handshake messages, as byte values:
\* b"\x00\x00\x00\x00PS-Msg05", ...PS-Msg06, ...PV-Msg02, ...PV-Msg03
PS_Msg05 == <<0, 0, 0, 0, 80, 83, 45, 77, 115, 103, 48, 53>>
PS_Msg06 == <<0, 0, 0, 0, 80, 83, 45, 77, 115, 103, 48, 54>>
PV_Msg02 == <<0, 0, 0, 0, 80, 86, 45, 77, 115, 103, 48, 50>>
PV_Msg03 == <<0, 0, 0, 0, 80, 86, 45, 77, 115, 103, 48, 51>>

\* every handshake message is sealed with the literal of pair-setup M5
HandshakeNonceShared(msg) == PS_Msg05

\* the nonce literal in the code of each encrypted handshake message
HandshakeNonce(msg) ==
    CASE msg = "ps_m5" -> PS_Msg05
      [] msg = "ps_m6" -> PS_Msg06
      [] msg = "pv_m2" -> PV_Msg02
      [] OTHER -> PV_Msg03

\* the n low bytes of value, least significant first
RECURSIVE LittleEndian(_, _)
LittleEndian(value, n) ==
    IF n = 0 THEN <<>> ELSE <<value % 256>> \o LittleEndian(value \div 256, n - 1)

\* struct.pack("<Q", counter).ljust(12, b"\x00")
CounterNonce(counter) == LittleEndian(counter, 8) \o <<0, 0, 0, 0>>

-----------------------------------------------------------------------------
(* Data *)

NoRecord == <<>>
PairingRecord(ltsk, acc_ltpk, acc_id, ep) ==
    [iOSDeviceLTSK |-> Hex(<<"sk", ltsk>>),
     iOSDeviceLTPK |-> Hex(<<"pk", ltsk>>),
     iOSPairingId |-> "10:10:10:10:10:10",
     AccessoryLTPK |-> Hex(acc_ltpk),
     AccessoryPairingID |-> acc_id,
     AccessoryAddress |-> ep.host,
     AccessoryPort |-> ep.port]

\* key = f"{host}:{port}"
PairingKey(ep) == <<ep.host, ":", ep.port>>

\* HapSession.__init__
NewSession == [connected |-> FALSE, closed |-> FALSE,
               encrypt_key |-> NoKey, decrypt_key |-> NoKey,
               send_counter |-> 0, recv_counter |-> 0]

NoCmd == [name |-> "none", ep |-> [host |-> "", port |-> 0], pin |-> "", value |-> 0]
NoAcc == [hdr |-> FALSE, status |-> 0, cl |-> 0, body |-> 0, frames |-> 0]
NoResp == <<>>
NoHs == [secret |-> NoSecret, key |-> NoKey, eph |-> "", ltsk |-> 0,
         record |-> NoRecord, aid |-> 0, iid |-> 0, out |-> "", val |-> 0]

NoAccessory == [honest |-> FALSE, doc |-> <<>>, values |-> <<>>, volume |-> <<>>,
                initial |-> 0]
NoConns == [opened |-> 0, closed |-> 0]
NoReturned == [len |-> 0, cl |-> 0, hdr |-> FALSE, body |-> 0, frames |-> 0,
               error |-> FALSE]
NoLink == [calls |-> <<>>, chan |-> <<>>, got |-> <<>>, total |-> 0,
           failed |-> FALSE, lost |-> FALSE, gotAtLoss |-> 0]
NoProbe == [data |-> <<>>, done |-> FALSE, out |-> <<>>]
\* no call of a method of the object is in progress
NoOp == [name |-> "none", pc |-> "", task |-> 0, proc |-> 0]

\* AppleTVBridge.__init__; tasks are the coroutines asyncio.create_task was
\* given, task the index of the one _reconnect_task refers to (0 for None);
\* calls and failed are history: the calls of schedule_reconnect, and the
\* connect attempts of the loops that failed since the last successful one;
\* op is the call of connect() or disconnect() in progress, ops counts these
\* calls, crashed holds the tasks an unexpected exception ended, disconnected
\* tells that disconnect() returned and connect() was not called since, and
\* atReturn is the number of tasks created when it returned
NoBridge == [closing |-> FALSE, count |-> 0, atv |-> FALSE, task |-> 0,
             tasks |-> <<>>, calls |-> 0, failed |-> 0, op |-> NoOp, ops |-> 0,
             crashed |-> {}, disconnected |-> FALSE, atReturn |-> 0]

\* CLIAirplayManager.__init__; procs are the subprocesses spawned, process the
\* index of the one _process refers to (0 for None), tasks the
\* _monitor_process coroutines, monitor the index of the one _monitor_task
\* refers to, op the call of start() or stop() in progress.  History: ops
\* counts the calls, streak the automatic restarts since the last start() by
\* a caller, stopped that stop() returned and start() was not called since,
\* atStop the subprocesses spawned when stop() returned.
NoManager == [binary |-> FALSE, process |-> 0, procs |-> <<>>, restart_count |-> 0,
              stopping |-> FALSE, monitor |-> 0, tasks |-> <<>>, op |-> NoOp,
              ops |-> 0, streak |-> 0, stopped |-> FALSE, atStop |-> 0]

\* Python's None, and a string given as the sequence of its characters
None == [none |-> TRUE, text |-> <<>>]
Some(t) == [none |-> FALSE, text |-> t]

\* no pairing attempt was made in the config flow
NoAttempt == [pin |-> <<>>, outcome |-> "none", stdout |-> <<>>, raised |-> "none"]

\* AirplaySpeakersConfigFlow.__init__: no step was run; errors holds the
\* errors of the form shown last ("" for an absent key), credentials those of
\* the created entry, last the latest pairing attempt
NoFlow == [step |-> "none", features |-> None, is_airplay2 |-> FALSE,
           errors |-> [pin |-> "", base |-> ""], reason |-> "",
           created |-> FALSE, credentials |-> None,
           attempts |-> 0, last |-> NoAttempt]

\* the dict _async_update_data builds before it asks the Apple TV; volume is
\* in hundredths
NoData == [volume |-> 0, muted |-> FALSE, playing |-> FALSE, playing_title |-> "None",
           playing_artist |-> "None", media_position |-> "None", media_type |-> "None"]

\* no poll of the coordinator has started; cause is why the helper binary
\* failed in the poll, asked what the Apple TV call of the poll came to,
\* connected whether the bridge was connected when the poll looked
NoPoll == [pc |-> "none", cause |-> "none", volume |-> 0, read |-> FALSE,
           asked |-> "none", connected |-> FALSE, scheduled |-> FALSE,
           raised |-> "none", data |-> NoData]

\* no command was given to the media-player entity; connected tells whether
\* the bridge was connected when the command came, sent whether the command
\* went out to the Apple TV or to the helper binary, refreshes how often the
\* command called async_request_refresh
NoCommand == [name |-> "none", pc |-> "none", connected |-> FALSE, sent |-> FALSE,
              outcome |-> "none", refreshes |-> 0]

\* no config entry is set up; atv is what became of the Apple TV in the setup
\* and at the await where the setup raised; command is the latest command of
\* the entry's media player, requested the refreshes its commands asked for
NoEntry == [pc |-> "none", atv_id |-> FALSE, pyatv |-> TRUE, has_bridge |-> FALSE,
            atv |-> "none", raised |-> "none", at |-> "none", poll |-> NoPoll,
            polls |-> 0, command |-> NoCommand, commands |-> 0, requested |-> 0]

\* a process that has not called cmd_pair
NoPairer == [pc |-> "idle", ep |-> NoCmd.ep, record |-> NoRecord, loaded |-> <<>>,
             result |-> ""]

\* the integration's objects as their constructors leave them, and no
\* process in cmd_pair
RestIdle ==
    /\ manager = NoManager
    /\ flow = NoFlow
    /\ entry = NoEntry
    /\ pairers = [i \in 1..2 |-> NoPairer]

-----------------------------------------------------------------------------
(* Request sites: the places that call http_request *)

SetupSites == {"ps_m1", "ps_m3", "ps_m5"}
VerifySites == {"pv_m1", "pv_m3"}
CommandSites == {"c_acc", "c_get", "c_put"}
Sites == SetupSites \cup VerifySites \cup CommandSites

SitePath(s) ==
    CASE s \in SetupSites -> "/pair-setup"
      [] s \in VerifySites -> "/pair-verify"
      [] s = "c_acc" -> "/accessories"
      [] OTHER -> "/characteristics"

\* where the coroutine continues when http_request returns
After(s) ==
    CASE s = "ps_m1" -> "ps_m2" [] s = "ps_m3" -> "ps_m4" [] s = "ps_m5" -> "ps_m6"
      [] s = "pv_m1" -> "pv_m2" [] s = "pv_m3" -> "pv_m4"
      [] s = "c_acc" -> "c_acc_r" [] s = "c_get" -> "c_get_r" [] OTHER -> "c_put_r"

ReadPcs == {"rd_head", "rd_body", "rd_frame"}
AfterPcs == {After(s) : s \in Sites}

-----------------------------------------------------------------------------
(* Exceptions *)

\* the code of _get_session (and of pair_verify under it) runs outside the
\* try/finally of cmd_list, cmd_get and cmd_set
InGetSession ==
    /\ cmd.name \in {"list", "get", "set"}
    /\ \/ pc \in {"gs_lookup", "pv_connect", "pv_m1", "pv_m2", "pv_m3", "pv_m4"}
       \/ pc \in ReadPcs /\ ret \in VerifySites

\* a failed read on the established session is answered by sending the
\* request again on the same session
ExcTargetRetry ==
    IF pc \in ReadPcs /\ ret \in CommandSites THEN ret
    ELSE IF InGetSession THEN "done" ELSE "finally"

\* a pair-setup step that fails is tried again
ExcTargetStepRetry ==
    IF cmd.name = "pair" /\ pc \in {"ps_m2", "ps_m4", "ps_m6"} THEN ret
    ELSE IF InGetSession THEN "done" ELSE "finally"

\* where an exception raised at the current position is handled: no handler
\* exists but the finally clauses of the cmd_ functions
ExcTarget == IF InGetSession THEN "done" ELSE "finally"

Raise(kind) ==
    /\ exc' = kind
    /\ pc' = ExcTarget
    /\ result' = IF ExcTarget = "done" THEN "error" ELSE result

-----------------------------------------------------------------------------
(* HapSession *)

\* every request is written in the clear
UseEncryptionNever == FALSE

\* http_request: "if self.encrypt_key:"
UseEncryption == session.encrypt_key # NoKey

\* the counter is not advanced
NextCounterStuck(c) == c

\* "self.send_counter += 1", "self.recv_counter += 1"
NextCounter(c) == c + 1

\* struct.pack("<H", length)
LengthPrefix(length) == LittleEndian(length, 2)

\* the rest of the data goes into one frame
ChunkLengthWhole(len, offset) == len - offset

\* len(data[offset:offset + 1024])
ChunkLength(len, offset) == Min(ChunkSize, len - offset)

\* _encrypt: the frames of a message of len bytes, and the counter after them;
\* a frame holds the bytes data[offset:offset + length], sealed under key and
\* nonce with aad as associated data, after the prefix
RECURSIVE EncryptLoop(_, _, _, _)
EncryptLoop(len, offset, counter, out) ==
    IF offset < len
    THEN LET length == ChunkLength(len, offset)
         IN  EncryptLoop(len, offset + length, NextCounter(counter),
                         Append(out, [length |-> length, counter |-> counter,
                                      key |-> session.encrypt_key,
                                      offset |-> offset,
                                      nonce |-> CounterNonce(counter),
                                      aad |-> LengthPrefix(length),
                                      prefix |-> LengthPrefix(length)]))
    ELSE [frames |-> out, send_counter |-> counter]

Encrypt(len) == EncryptLoop(len, 0, session.send_counter, <<>>)

\* the reader returns as soon as body bytes follow the header block
ResponseCompleteFirstBytes(a) == a.hdr /\ (a.body > 0 \/ a.cl = 0)

\* the reader returns as soon as the header block is complete
ResponseCompleteHeaderOnly(a) == a.hdr

\* _read_encrypted_response: a header block ended by a blank line, followed
\* by at least Content-Length body bytes
ResponseComplete(a) == a.hdr /\ a.body >= a.cl

\* HapSession.connect; pair_verify then generates its ephemeral key
Connect ==
    /\ pc \in {"ps_connect", "pv_connect"}
    /\ \/ /\ session' = [session EXCEPT !.connected = TRUE]
          /\ pc' = IF pc = "ps_connect" THEN "ps_m1" ELSE "pv_m1"
          /\ \E e \in EphKeys :
                hs' = IF pc = "pv_connect" THEN [hs EXCEPT !.eph = e] ELSE hs
          /\ conns' = [conns EXCEPT !.opened = @ + 1]
          /\ UNCHANGED <<exc, result>>
       \/ /\ Raise("io")
          /\ UNCHANGED <<session, hs, conns>>
    /\ UNCHANGED <<other, accessory, aeadLog, returned,
                   targets, pairings, cmd, ret, acc, resp, loaded, wire, hist, recvLog,
                   broken, outstanding, excess, verified, pairings0>>

\* the characteristic is addressed with aid and iid exchanged
PutBodySwapped ==
    [aid |-> hs.iid, iid |-> hs.aid, value |-> cmd.value]

\* cmd_set: {"characteristics": [{"aid": aid, "iid": iid, "value": value}]}
PutBody ==
    [aid |-> hs.aid, iid |-> hs.iid, value |-> cmd.value]

\* cmd_get: f"/characteristics?id={aid}.{iid}"
GetPath == [aid |-> hs.aid, iid |-> hs.iid]

\* what a request of the command layer names
Request(site) ==
    CASE site = "c_get" -> GetPath
      [] site = "c_put" -> PutBody
      [] OTHER -> <<>>

\* an accessory that keeps its values takes the value of a PUT request for
\* one of its characteristics
Written(req) ==
    IF accessory.honest /\ <<req.aid, req.iid>> \in DOMAIN accessory.values
    THEN [accessory EXCEPT !.values[<<req.aid, req.iid>>] = req.value]
    ELSE accessory

\* http_request up to the write: the request goes out in the clear or through
\* _encrypted_request, and the coroutine waits for the response
HttpRequest(len) ==
    /\ pc \in Sites
    /\ LET enc == UseEncryption
           e == Encrypt(len)
       IN  /\ wire' = Append(wire,
                  [site |-> pc, path |-> SitePath(pc), enc |-> enc,
                   frames |-> IF enc THEN e.frames ELSE <<>>,
                   verified |-> verified, broken |-> broken,
                   pending |-> outstanding, req |-> Request(pc)])
           /\ accessory' = IF pc = "c_put" THEN Written(Request(pc)) ELSE accessory
           /\ session' = [session EXCEPT
                  !.send_counter = IF enc THEN e.send_counter ELSE @]
           /\ pc' = IF enc THEN "rd_frame" ELSE "rd_head"
    /\ ret' = pc
    /\ acc' = NoAcc
    /\ outstanding' = TRUE
    /\ returned' = NoReturned
    /\ UNCHANGED <<other, aeadLog, conns,
                   targets, pairings, cmd, resp, hs, exc, result, loaded, hist, recvLog,
                   broken, excess, verified, pairings0>>

-----------------------------------------------------------------------------
(* What the accessory can answer.  A TLV message is the mapping that         *)
(* TLV.decode_bytearray gives the caller: tag -> value.                      *)

\* the key, nonce and sub-TLV the accessory's M6 has to be built from
SetupEncKey == hkdf_derive(hs.secret, "Pair-Setup-Encrypt-Salt", "Pair-Setup-Encrypt-Info")
SetupSubTlvs ==
    {[Identifier |-> i, PublicKey |-> k] : i \in AccIds, k \in AccKeys}
        \cup {[Identifier |-> i] : i \in AccIds}

\* the key and sub-TLV the accessory's pair-verify M2 has to be built from
VerifyKeyFor(server_pk) ==
    hkdf_derive(Exchange(hs.eph, server_pk), "Pair-Verify-Encrypt-Salt", "Pair-Verify-Encrypt-Info")
ServerPks == {"s1"}
ServerInfo(server_pk, server_id) == <<server_pk, server_id, PublicOf(hs.eph)>>
VerifySubTlvs(server_pk) ==
    {[Identifier |-> i,
      Signature |-> Sign(k, IF good THEN ServerInfo(server_pk, i)
                                    ELSE <<server_pk, i, PublicOf("corrupted")>>)] :
        i \in AccIds, k \in AccKeys, good \in BOOLEAN}
        \cup {[Identifier |-> i] : i \in AccIds}

ErrorTlv == [Error |-> "02"]
EmptyTlv == <<>>

TlvBodies(site) ==
    CASE site = "ps_m1" ->
            {ErrorTlv, [Salt |-> "salt", PublicKey |-> "B"],
             [Error |-> "06", Salt |-> "salt", PublicKey |-> "B"], [Salt |-> "salt"]}
      [] site = "ps_m3" ->
            {ErrorTlv, [State |-> "M4"]}
                \cup {[Proof |-> SrpServerProof(k)] : k \in {hs.secret, OtherSecret}}
                \cup {[Error |-> "02", Proof |-> SrpServerProof(hs.secret)]}
      [] site = "ps_m5" ->
            {ErrorTlv, [State |-> "M6"]}
                \cup {[EncryptedData |-> AeadEncrypt(k, n, t)] :
                        k \in {SetupEncKey, OtherKey},
                        n \in {PS_Msg06, PS_Msg05}, t \in SetupSubTlvs}
                \cup {[Error |-> "02",
                       EncryptedData |-> AeadEncrypt(SetupEncKey, PS_Msg06, t)] :
                        t \in SetupSubTlvs}
      [] site = "pv_m1" ->
            {ErrorTlv, [PublicKey |-> "s1"]}
                \cup {[PublicKey |-> p, EncryptedData |-> AeadEncrypt(k, n, t)] :
                        p \in ServerPks, k \in {VerifyKeyFor("s1"), OtherKey},
                        n \in {PV_Msg02, PV_Msg03}, t \in VerifySubTlvs("s1")}
                \cup {[Error |-> "02", PublicKey |-> "s1",
                       EncryptedData |-> AeadEncrypt(VerifyKeyFor("s1"), PV_Msg02, t)] :
                        t \in VerifySubTlvs("s1")}
      [] OTHER ->
            {ErrorTlv, [State |-> "M4"]}

\* a characteristic of the accessory document, the services flattened in
\* document order; a type is the sequence of its characters
VolumeByType == [aid |-> 1, iid |-> 9, type |-> <<1, 1, 9>>, description |-> ""]
VolumeByDesc == [aid |-> 1, iid |-> 10, type |-> <<2, 5>>, description |-> "Volume"]
MuteChar == [aid |-> 1, iid |-> 11, type |-> <<2, 5>>, description |-> "Mute"]
LookAlike == [aid |-> 2, iid |-> 12, type |-> <<7, 1, 1, 9, 0>>, description |-> ""]
Chars == {VolumeByType, VolumeByDesc, MuteChar, LookAlike}
Docs == {<<>>} \cup {<<c>> : c \in Chars} \cup {<<c, d>> : c \in Chars, d \in Chars}

\* the body bytes of an encrypted response: empty, not JSON, or a JSON object
JsonBodies(site) ==
    CASE site = "c_acc" ->
            {[accessories |-> d] : d \in Docs} \cup {[status |-> "-70401"]}
      [] site = "c_get" ->
            {[characteristics |-> <<[value |-> v]>>] : v \in Values}
                \cup {[characteristics |-> <<>>], [status |-> "-70401"]}
      [] OTHER ->
            {[characteristics |-> <<[status |-> "-70404"]>>]}

\* the number of body bytes, in the units of ContentLengths, of the answer
\* of an accessory that keeps its values: none to a PUT, a document otherwise
HonestLength(site) == IF site = "c_put" THEN 0 ELSE 2

\* the answer of an accessory that keeps its values to the last request: its
\* document, or the value of the characteristic the request names
HonestJson(site) ==
    LET req == wire[Len(wire)].req
    IN  CASE site = "c_acc" -> [accessories |-> accessory.doc]
          [] site = "c_get" /\ <<req.aid, req.iid>> \in DOMAIN accessory.values ->
                [characteristics |->
                    <<[value |-> accessory.values[<<req.aid, req.iid>>]]>>]
          [] OTHER -> [status |-> "-70409"]

Bodies(site, len) ==
    IF len = 0
    THEN {[kind |-> "empty", tlv |-> EmptyTlv, json |-> <<>>]}
    ELSE IF site \in CommandSites /\ accessory.honest
    THEN {[kind |-> "json", tlv |-> EmptyTlv, json |-> HonestJson(site)]}
    ELSE IF site \in CommandSites
    THEN {[kind |-> "garbage", tlv |-> EmptyTlv, json |-> <<>>]}
            \cup {[kind |-> "json", tlv |-> EmptyTlv, json |-> j] : j \in JsonBodies(site)}
    ELSE {[kind |-> "tlv", tlv |-> t, json |-> <<>>] : t \in TlvBodies(site)}

\* what of a returned body the history keeps: a handshake message whole, of
\* a command response only its kind
Kept(body) == IF body.kind = "tlv" THEN body ELSE [body EXCEPT !.json = <<>>]

\* http_request returns body to its caller, the reader having consumed a
\* (its locals end with it)
Return(body, a) ==
    /\ resp' = body
    /\ hist' = Append(hist, [site |-> ret, body |-> Kept(body)])
    /\ pc' = After(ret)
    /\ acc' = NoAcc
    /\ outstanding' = ~(a.hdr /\ a.body >= a.cl)
    /\ excess' = (a.body > a.cl)
    /\ returned' = [len |-> Min(a.cl, a.body), cl |-> a.cl, hdr |-> a.hdr,
                    body |-> a.body, frames |-> a.frames,
                    error |-> a.status >= ErrorStatus]

-----------------------------------------------------------------------------
(* _read_http_response *)

\* the status line and the header lines up to the blank line
ReadHead ==
    /\ pc = "rd_head"
    /\ \/ /\ \E st \in Statuses, cl \in ContentLengths :
                acc' = [acc EXCEPT !.hdr = TRUE, !.status = st, !.cl = cl]
          /\ pc' = "rd_body"
          /\ UNCHANGED <<exc, result>>
       \/ /\ Raise("io")
          /\ UNCHANGED acc
    /\ UNCHANGED <<other, accessory, aeadLog, conns, returned,
                   targets, pairings, cmd, session, ret, resp, hs, loaded, wire, hist,
                   recvLog, broken, outstanding, excess, verified, pairings0>>

\* readexactly(content_length), then the status check
ReadBody ==
    /\ pc = "rd_body"
    /\ \/ LET a == [acc EXCEPT !.body = acc.cl]
          IN  IF a.status >= ErrorStatus
              THEN /\ Raise("http")
                   /\ acc' = a
                   /\ outstanding' = FALSE
                   /\ UNCHANGED <<resp, hist, excess, returned>>
              ELSE /\ \E b \in Bodies(ret, a.cl) : Return(b, a)
                   /\ UNCHANGED <<exc, result>>
       \/ /\ acc.cl > 0
          /\ Raise("io")
          /\ UNCHANGED <<acc, resp, hist, outstanding, excess, returned>>
    /\ UNCHANGED <<other, accessory, aeadLog, conns,
                   targets, pairings, cmd, session, ret, hs, loaded, wire, recvLog,
                   broken, verified, pairings0>>

-----------------------------------------------------------------------------
(* _read_encrypted_response *)

\* what a frame adds to the plaintext: the rest of the header block (with the
\* status and the declared Content-Length) and b body bytes
FrameContents ==
    IF acc.hdr
    THEN {[h |-> FALSE, st |-> acc.status, cl |-> acc.cl, b |-> b] : b \in FrameBody \ {0}}
    ELSE {[h |-> FALSE, st |-> 0, cl |-> 0, b |-> 0]}
            \cup {[h |-> TRUE, st |-> st, cl |-> cl, b |-> b] :
                    st \in FrameStatuses, cl \in ContentLengths, b \in FrameBody}

\* the frames of an accessory that keeps its values: status 200, the length
\* of its answer declared and no byte beyond it, sealed as the session expects
HonestFrames ==
    {[key |-> session.decrypt_key, counter |-> session.recv_counter, c |-> c] :
        c \in {x \in FrameContents :
                  /\ x.st \in {0, 200}
                  /\ x.h => x.cl = HonestLength(ret)
                  /\ acc.body + x.b <= x.cl}}

\* the frames the accessory can send next: sealed under the read key with its
\* own counter, or under another key, or with a counter value skipped
Frames ==
    IF accessory.honest THEN HonestFrames ELSE
    {[key |-> session.decrypt_key, counter |-> session.recv_counter, c |-> c] :
        c \in FrameContents}
        \cup {[key |-> k, counter |-> n, c |-> [h |-> FALSE, st |-> 0, cl |-> 0, b |-> 0]] :
                k \in {session.decrypt_key, OtherKey},
                n \in {session.recv_counter, session.recv_counter + 1}}

\* the counter of a frame is not looked at
FrameOpensAnyCounter(f) == f.key = session.decrypt_key

\* cipher.decrypt(nonce, encrypted, length_bytes) with the nonce built from
\* recv_counter
FrameOpens(f) == f.key = session.decrypt_key /\ f.counter = session.recv_counter

ReadFrame ==
    /\ pc = "rd_frame"
    /\ \/ /\ Raise("io")
          /\ broken' = TRUE
          /\ UNCHANGED <<session, acc, resp, hist, recvLog, outstanding, excess,
                         returned>>
       \/ \E f \in Frames :
            /\ acc.frames < MaxRespFrames
            /\ IF ~FrameOpens(f)
               THEN /\ Raise("tag")
                    /\ broken' = TRUE
                    /\ UNCHANGED <<session, acc, resp, hist, recvLog,
                                   outstanding, excess, returned>>
               ELSE LET a == [hdr |-> acc.hdr \/ f.c.h, status |-> f.c.st,
                              cl |-> f.c.cl, body |-> acc.body + f.c.b,
                              frames |-> acc.frames + 1]
                    IN  /\ session' = [session EXCEPT
                              !.recv_counter = NextCounter(session.recv_counter)]
                        /\ recvLog' = Append(recvLog,
                              [counter |-> session.recv_counter,
                               key |-> session.decrypt_key,
                               nonce |-> CounterNonce(session.recv_counter)])
                        /\ UNCHANGED <<exc, result, broken>>
                        /\ IF ResponseComplete(a)
                           THEN \E b \in Bodies(ret, Min(a.cl, a.body)) : Return(b, a)
                           ELSE /\ acc' = a
                                /\ UNCHANGED <<pc, resp, hist, outstanding, excess,
                                               returned>>
    /\ UNCHANGED <<other, accessory, aeadLog, conns,
                   targets, pairings, cmd, ret, hs, loaded, wire, verified, pairings0>>

-----------------------------------------------------------------------------
(* pair_setup *)

\* one use of ChaCha20Poly1305 in a handshake: cipher.encrypt or
\* cipher.decrypt of message msg under key and nonce
AeadUse(op, msg, key) ==
    [op |-> op, msg |-> msg, key |-> key, nonce |-> HandshakeNonce(msg)]

\* an Error entry is never looked at
HasErrorNever(m) == FALSE

\* "if TLV.kTLVType_Error in m:"
HasError(m) == "Error" \in DOMAIN m

\* the server proof is accepted unchecked
ServerProofOkAlways(m4) == TRUE

\* "srp.verify_servers_proof_bytes(server_proof)"
ServerProofOk(m4) == verify_servers_proof_bytes(hs.secret, m4.Proof)

ProcessSetupM2 ==
    /\ pc = "ps_m2"
    /\ LET m2 == resp.tlv
       IN  IF HasError(m2)
           THEN Raise("proto") /\ UNCHANGED hs
           ELSE IF ~({"Salt", "PublicKey"} \subseteq DOMAIN m2)
           THEN Raise("key") /\ UNCHANGED hs
           ELSE /\ hs' = [hs EXCEPT
                      !.secret = SrpSessionKey(cmd.pin, m2.Salt, m2.PublicKey)]
                /\ pc' = "ps_m3"
                /\ UNCHANGED <<exc, result>>
    /\ resp' = NoResp
    /\ excess' = FALSE
    /\ UNCHANGED <<other, accessory, aeadLog, conns, returned,
                   targets, pairings, cmd, session, ret, acc, loaded, wire, hist, recvLog,
                   broken, outstanding, verified, pairings0>>

ProcessSetupM4 ==
    /\ pc = "ps_m4"
    /\ LET m4 == resp.tlv
       IN  IF HasError(m4)
           THEN Raise("proto") /\ UNCHANGED <<hs, aeadLog>>
           ELSE IF "Proof" \notin DOMAIN m4
           THEN Raise("key") /\ UNCHANGED <<hs, aeadLog>>
           ELSE IF ~ServerProofOk(m4)
           THEN Raise("auth") /\ UNCHANGED <<hs, aeadLog>>
           ELSE /\ \E k \in LTKeys :
                      hs' = [hs EXCEPT !.ltsk = k, !.key = SetupEncKey]
                /\ aeadLog' = Append(aeadLog, AeadUse("encrypt", "ps_m5", SetupEncKey))
                /\ pc' = "ps_m5"
                /\ UNCHANGED <<exc, result>>
    /\ resp' = NoResp
    /\ excess' = FALSE
    /\ UNCHANGED <<other, accessory, conns, returned,
                   targets, pairings, cmd, session, ret, acc, loaded, wire, hist, recvLog,
                   broken, outstanding, verified, pairings0>>

ProcessSetupM6 ==
    /\ pc = "ps_m6"
    /\ LET m6 == resp.tlv
       IN  IF HasError(m6)
           THEN Raise("proto") /\ UNCHANGED <<hs, aeadLog>>
           ELSE IF "EncryptedData" \notin DOMAIN m6
           THEN Raise("key") /\ UNCHANGED <<hs, aeadLog>>
           ELSE /\ aeadLog' = Append(aeadLog, AeadUse("decrypt", "ps_m6", hs.key))
                /\ IF ~AeadOpens(hs.key, HandshakeNonce("ps_m6"), m6.EncryptedData)
                   THEN Raise("tag") /\ UNCHANGED hs
                   ELSE IF ~({"Identifier", "PublicKey"}
                                \subseteq DOMAIN m6.EncryptedData.pt)
                   THEN Raise("key") /\ UNCHANGED hs
                   ELSE LET m6_sub == m6.EncryptedData.pt
                        IN  /\ hs' = [hs EXCEPT !.record =
                                  PairingRecord(hs.ltsk, m6_sub.PublicKey,
                                                m6_sub.Identifier, cmd.ep)]
                            /\ pc' = "pair_load"
                            /\ UNCHANGED <<exc, result>>
    /\ resp' = NoResp
    /\ excess' = FALSE
    /\ UNCHANGED <<other, accessory, conns, returned,
                   targets, pairings, cmd, session, ret, acc, loaded, wire, hist, recvLog,
                   broken, outstanding, verified, pairings0>>

-----------------------------------------------------------------------------
(* pair_verify *)

\* the signature is accepted unchecked
SignatureOkAlways(ltpk, sig, info) == TRUE

\* "accessory_ltpk.verify(bytes(server_sig), server_info)"
SignatureOk(ltpk, sig, info) == Ed25519Verify(ltpk, sig, info)

ProcessVerifyM2 ==
    /\ pc = "pv_m2"
    /\ LET m2 == resp.tlv
           pairing == loaded[PairingKey(cmd.ep)]
       IN  IF HasError(m2)
           THEN Raise("proto") /\ UNCHANGED <<hs, aeadLog>>
           ELSE IF ~({"PublicKey", "EncryptedData"} \subseteq DOMAIN m2)
           THEN Raise("key") /\ UNCHANGED <<hs, aeadLog>>
           ELSE LET shared_secret == Exchange(hs.eph, m2.PublicKey)
                    session_key == hkdf_derive(shared_secret,
                        "Pair-Verify-Encrypt-Salt", "Pair-Verify-Encrypt-Info")
                    sub_tlv == m2.EncryptedData.pt
                    opened == Append(aeadLog, AeadUse("decrypt", "pv_m2", session_key))
                IN  IF ~AeadOpens(session_key, HandshakeNonce("pv_m2"), m2.EncryptedData)
                    THEN Raise("tag") /\ aeadLog' = opened /\ UNCHANGED hs
                    ELSE IF ~({"Identifier", "Signature"} \subseteq DOMAIN sub_tlv)
                    THEN Raise("key") /\ aeadLog' = opened /\ UNCHANGED hs
                    ELSE IF ~SignatureOk(FromHex(pairing.AccessoryLTPK),
                                         sub_tlv.Signature,
                                         ServerInfo(m2.PublicKey, sub_tlv.Identifier))
                    THEN Raise("auth") /\ aeadLog' = opened /\ UNCHANGED hs
                    ELSE /\ hs' = [hs EXCEPT !.secret = shared_secret,
                                             !.key = session_key]
                         /\ aeadLog' = Append(opened,
                                AeadUse("encrypt", "pv_m3", session_key))
                         /\ pc' = "pv_m3"
                         /\ UNCHANGED <<exc, result>>
    /\ resp' = NoResp
    /\ excess' = FALSE
    /\ UNCHANGED <<other, accessory, conns, returned,
                   targets, pairings, cmd, session, ret, acc, loaded, wire, hist, recvLog,
                   broken, outstanding, verified, pairings0>>

WriteKey(shared_secret) ==
    hkdf_derive(shared_secret, "Control-Salt", "Control-Write-Encryption-Key")
ReadKey(shared_secret) ==
    hkdf_derive(shared_secret, "Control-Salt", "Control-Read-Encryption-Key")

ProcessVerifyM4 ==
    /\ pc = "pv_m4"
    /\ IF HasError(resp.tlv)
       THEN Raise("proto") /\ UNCHANGED <<session, verified>>
       ELSE /\ session' = [session EXCEPT
                  !.encrypt_key = WriteKey(hs.secret),
                  !.decrypt_key = ReadKey(hs.secret),
                  !.send_counter = 0,
                  !.recv_counter = 0]
            /\ verified' = TRUE
            /\ pc' = "c_acc"
            /\ UNCHANGED <<exc, result>>
    /\ resp' = NoResp
    /\ excess' = FALSE
    /\ UNCHANGED <<other, accessory, aeadLog, conns, returned,
                   targets, pairings, cmd, ret, acc, hs, loaded, wire, hist, recvLog,
                   broken, outstanding, pairings0>>

-----------------------------------------------------------------------------
(* Command layer *)

\* "119" in ctype
Contains(sub, seq) ==
    \E i \in 1..(Len(seq) - Len(sub) + 1) : SubSeq(seq, i, i + Len(sub) - 1) = sub

\* str.lower() on the descriptions of the model
Lower(d) == CASE d = "Volume" -> "volume" [] d = "Mute" -> "mute" [] OTHER -> d

\* "volume" in text, for the lower-cased descriptions of the model
ContainsVolume(text) == text \in {"volume"}

\* data.get(name, default)
Get(data, name, default) == IF name \in DOMAIN data THEN data[name] ELSE default

NotFound == <<>>

\* _find_volume on the flattened characteristics: the first one that matches
\* by type or by description; NotFound models (None, None)
RECURSIVE FindVolumeFrom(_, _)
FindVolumeFrom(chars, i) ==
    IF i > Len(chars) THEN NotFound
    ELSE IF Contains(<<1, 1, 9>>, chars[i].type) THEN <<chars[i].aid, chars[i].iid>>
    ELSE IF ContainsVolume(Lower(chars[i].description)) THEN <<chars[i].aid, chars[i].iid>>
    ELSE FindVolumeFrom(chars, i + 1)

FindVolume(accessories_data) ==
    FindVolumeFrom(Get(accessories_data, "accessories", <<>>), 1)

\* a body that is not JSON is taken for an empty object
DecodeFailsNever(body) == FALSE

\* json.loads raises on a body that is not JSON
DecodeFails(body) == body.kind = "garbage"

\* encrypted_get_json: "json.loads(body) if body else {}"
GetJson(body) == IF body.kind = "json" THEN body.json ELSE <<>>

\* cmd_pair, cmd_list, cmd_get, cmd_set are started from the command line
StartPair(ep, pin) ==
    /\ pc = "idle"
    /\ cmd' = [name |-> "pair", ep |-> ep, pin |-> pin, value |-> 0]
    /\ session' = NewSession
    /\ pc' = "ps_connect"
    /\ pairings0' = pairings
    /\ UNCHANGED <<other, accessory, aeadLog, conns, returned,
                   targets, pairings, ret, acc, resp, hs, exc, result, loaded, wire, hist,
                   recvLog, broken, outstanding, excess, verified>>

StartCommand(name, ep, value) ==
    /\ pc = "idle"
    /\ name = "set" \/ value = 0
    /\ cmd' = [name |-> name, ep |-> ep, pin |-> "", value |-> value]
    /\ pc' = "gs_lookup"
    /\ pairings0' = pairings
    /\ UNCHANGED <<other, accessory, aeadLog, conns, returned,
                   targets, pairings, session, ret, acc, resp, hs, exc, result, loaded,
                   wire, hist, recvLog, broken, outstanding, excess, verified>>

\* the lookup finds a record whatever the file holds
HasPairingAlways(store, key) == TRUE

\* _get_session: "key not in pairings" decides whether the command goes on
HasPairing(store, key) == key \in DOMAIN store

\* _get_session: the lookup in the pairing file
GetSessionLookup ==
    /\ pc = "gs_lookup"
    /\ loaded' = pairings
    /\ IF ~HasPairing(pairings, PairingKey(cmd.ep))
       THEN /\ pc' = "done"
            /\ exc' = "SystemExit"
            /\ result' = "exit1"
            /\ UNCHANGED session
       ELSE /\ session' = NewSession
            /\ pc' = "pv_connect"
            /\ UNCHANGED <<exc, result>>
    /\ UNCHANGED <<other, accessory, aeadLog, conns, returned,
                   targets, pairings, cmd, ret, acc, resp, hs, wire, hist, recvLog,
                   broken, outstanding, excess, verified, pairings0>>

\* the response to GET /accessories in cmd_list, cmd_get and cmd_set
ProcessAccessories ==
    /\ pc = "c_acc_r"
    /\ IF DecodeFails(resp)
       THEN Raise("decode") /\ UNCHANGED hs
       ELSE LET data == GetJson(resp)
                found == FindVolume(data)
            IN  /\ UNCHANGED <<exc, result>>
                /\ IF cmd.name = "list"
                   THEN /\ hs' = [hs EXCEPT !.out = "listed"]
                        /\ pc' = "finally"
                   ELSE IF found = NotFound
                   THEN /\ hs' = [hs EXCEPT !.out = "not_found"]
                        /\ pc' = "finally"
                   ELSE /\ hs' = [hs EXCEPT !.aid = found[1], !.iid = found[2]]
                        /\ pc' = IF cmd.name = "get" THEN "c_get" ELSE "c_put"
    /\ resp' = NoResp
    /\ excess' = FALSE
    /\ UNCHANGED <<other, accessory, aeadLog, conns, returned,
                   targets, pairings, cmd, session, ret, acc, loaded, wire, hist, recvLog,
                   broken, outstanding, verified, pairings0>>

\* the response to GET /characteristics in cmd_get
ProcessGet ==
    /\ pc = "c_get_r"
    /\ IF DecodeFails(resp)
       THEN Raise("decode") /\ UNCHANGED hs
       ELSE LET chars == Get(GetJson(resp), "characteristics", <<>>)
            IN  /\ hs' = IF chars # <<>>
                         THEN [hs EXCEPT !.out = "volume",
                                         !.val = Get(chars[1], "value", 0)]
                         ELSE [hs EXCEPT !.out = "no_value"]
                /\ pc' = "finally"
                /\ UNCHANGED <<exc, result>>
    /\ resp' = NoResp
    /\ excess' = FALSE
    /\ UNCHANGED <<other, accessory, aeadLog, conns, returned,
                   targets, pairings, cmd, session, ret, acc, loaded, wire, hist, recvLog,
                   broken, outstanding, verified, pairings0>>

\* the response to PUT /characteristics in cmd_set
ProcessPut ==
    /\ pc = "c_put_r"
    /\ IF DecodeFails(resp)
       THEN Raise("decode") /\ UNCHANGED hs
       ELSE /\ hs' = [hs EXCEPT !.out = "set", !.val = cmd.value]
            /\ pc' = "finally"
            /\ UNCHANGED <<exc, result>>
    /\ resp' = NoResp
    /\ excess' = FALSE
    /\ UNCHANGED <<other, accessory, aeadLog, conns, returned,
                   targets, pairings, cmd, session, ret, acc, loaded, wire, hist, recvLog,
                   broken, outstanding, verified, pairings0>>

\* cmd_pair after pair_setup returned: load_pairings
PairLoad ==
    /\ pc = "pair_load"
    /\ loaded' = pairings
    /\ pc' = "pair_save"
    /\ UNCHANGED <<other, accessory, aeadLog, conns, returned,
                   targets, pairings, cmd, session, ret, acc, resp, hs, exc, result, wire,
                   hist, recvLog, broken, outstanding, excess, verified, pairings0>>

\* only the new record is saved
StoreRecordAlone(store, key, record) == [k \in {key} |-> record]

\* "pairings[key] = pairing" on the loaded dict
StoreRecord(store, key, record) ==
    [k \in DOMAIN store \cup {key} |-> IF k = key THEN record ELSE store[k]]

\* cmd_pair: "pairings[key] = pairing" and save_pairings
PairSave ==
    /\ pc = "pair_save"
    /\ pairings' = StoreRecord(loaded, PairingKey(cmd.ep), hs.record)
    /\ hs' = [hs EXCEPT !.out = "saved"]
    /\ pc' = "finally"
    /\ UNCHANGED <<other, accessory, aeadLog, conns, returned,
                   targets, cmd, session, ret, acc, resp, exc, result, loaded, wire, hist,
                   recvLog, broken, outstanding, excess, verified, pairings0>>

\* the finally clause of the cmd_ functions: session.close()
Finally ==
    /\ pc = "finally"
    /\ session' = [session EXCEPT !.closed = session.connected]
    /\ conns' = [conns EXCEPT !.closed = IF session.connected THEN @ + 1 ELSE @]
    /\ pc' = "done"
    /\ result' = IF exc = "none" THEN "ok" ELSE "error"
    /\ UNCHANGED <<other, accessory, aeadLog, returned,
                   targets, pairings, cmd, ret, acc, resp, hs, exc, loaded, wire, hist,
                   recvLog, broken, outstanding, excess, verified, pairings0>>

\* the process ends; the next command starts from a fresh process
Exit ==
    /\ pc = "done"
    /\ pc' = "idle"
    /\ cmd' = NoCmd
    /\ session' = NewSession
    /\ ret' = ""
    /\ acc' = NoAcc
    /\ resp' = NoResp
    /\ excess' = FALSE
    /\ hs' = NoHs
    /\ exc' = "none"
    /\ result' = ""
    /\ loaded' = <<>>
    /\ wire' = <<>>
    /\ hist' = <<>>
    /\ recvLog' = <<>>
    /\ broken' = FALSE
    /\ outstanding' = FALSE
    /\ excess' = FALSE
    /\ verified' = FALSE
    /\ pairings0' = pairings
    /\ aeadLog' = <<>>
    /\ conns' = NoConns
    /\ returned' = NoReturned
    /\ UNCHANGED <<other, accessory, targets, pairings>>

-----------------------------------------------------------------------------

Init ==
    /\ targets = {Speaker}
    /\ pairings = <<>>
    /\ cmd = NoCmd
    /\ pc = "idle"
    /\ session = NewSession
    /\ ret = ""
    /\ acc = NoAcc
    /\ resp = NoResp
    /\ hs = NoHs
    /\ exc = "none"
    /\ result = ""
    /\ loaded = <<>>
    /\ wire = <<>>
    /\ hist = <<>>
    /\ recvLog = <<>>
    /\ broken = FALSE
    /\ outstanding = FALSE
    /\ excess = FALSE
    /\ verified = FALSE
    /\ pairings0 = <<>>
    /\ accessory = NoAccessory
    /\ aeadLog = <<>>
    /\ conns = NoConns
    /\ returned = NoReturned
    /\ link = NoLink
    /\ probe = NoProbe
    /\ bridge = NoBridge
    /\ RestIdle

Next ==
    \/ \E ep \in targets, pin \in Pins : StartPair(ep, pin)
    \/ \E name \in {"list", "get", "set"}, ep \in targets, v \in Values \cup {0} :
          StartCommand(name, ep, v)
    \/ GetSessionLookup
    \/ Connect
    \/ \E len \in ReqLens : HttpRequest(len)
    \/ ReadHead
    \/ ReadBody
    \/ ReadFrame
    \/ ProcessSetupM2
    \/ ProcessSetupM4
    \/ ProcessSetupM6
    \/ ProcessVerifyM2
    \/ ProcessVerifyM4
    \/ ProcessAccessories
    \/ ProcessGet
    \/ ProcessPut
    \/ PairLoad
    \/ PairSave
    \/ Finally
    \/ Exit

Spec == Init /\ [][Next]_vars

-----------------------------------------------------------------------------
(* Pair commands only, for two accessories *)

InitPair ==
    /\ targets = Endpoints
    /\ pairings = <<>>
    /\ cmd = NoCmd
    /\ pc = "idle"
    /\ session = NewSession
    /\ ret = ""
    /\ acc = NoAcc
    /\ resp = NoResp
    /\ hs = NoHs
    /\ exc = "none"
    /\ result = ""
    /\ loaded = <<>>
    /\ wire = <<>>
    /\ hist = <<>>
    /\ recvLog = <<>>
    /\ broken = FALSE
    /\ outstanding = FALSE
    /\ excess = FALSE
    /\ verified = FALSE
    /\ pairings0 = <<>>
    /\ accessory = NoAccessory
    /\ aeadLog = <<>>
    /\ conns = NoConns
    /\ returned = NoReturned
    /\ link = NoLink
    /\ probe = NoProbe
    /\ bridge = NoBridge
    /\ RestIdle

NextPair ==
    \/ \E ep \in targets, pin \in Pins : StartPair(ep, pin)
    \/ Connect
    \/ \E len \in ReqLens : HttpRequest(len)
    \/ ReadHead
    \/ ReadBody
    \/ ProcessSetupM2
    \/ ProcessSetupM4
    \/ ProcessSetupM6
    \/ PairLoad
    \/ PairSave
    \/ Finally
    \/ Exit

PairSpec == InitPair /\ [][NextPair]_vars

-----------------------------------------------------------------------------
(* Properties *)

WireSites == {wire[i].site : i \in DOMAIN wire}

RECURSIVE FramesFrom(_)
FramesFrom(i) == IF i > Len(wire) THEN <<>> ELSE wire[i].frames \o FramesFrom(i + 1)
\* every frame _encrypt produced on this session, in order
SentFrames == FramesFrom(1)

\* the M2 of pair-verify carries a signature that does not verify against the
\* AccessoryLTPK of the pairing record
BadSignatureM2(m) ==
    /\ {"PublicKey", "EncryptedData"} \subseteq DOMAIN m
    /\ {"Identifier", "Signature"} \subseteq DOMAIN m.EncryptedData.pt
    /\ LET sub == m.EncryptedData.pt
           stored == loaded[PairingKey(cmd.ep)].AccessoryLTPK
       IN  ~(/\ <<"hex", sub.Signature.by>> = stored
             /\ sub.Signature.msg = <<m.PublicKey, sub.Identifier, <<"pub", hs.eph>>>>)

\* C1: when the signature of the accessory's M2 does not verify against the
\* stored AccessoryLTPK, pair_verify sends no M3 and the session's
\* encrypt_key and decrypt_key stay unset.
C1_SignatureEnforced ==
    \A i \in DOMAIN hist :
        (hist[i].site = "pv_m1" /\ BadSignatureM2(hist[i].body.tlv))
            => /\ "pv_m3" \notin WireSites
               /\ session.encrypt_key = NoKey
               /\ session.decrypt_key = NoKey

\* C1 witness: a pair-verify whose M2 has no Error entry and decrypts, but is
\* signed over corrupted data, has ended with an exception.
C1_Witness ==
    /\ pc = "done"
    /\ exc = "auth"
    /\ \E i \in DOMAIN hist :
        /\ hist[i].site = "pv_m1"
        /\ BadSignatureM2(hist[i].body.tlv)
        /\ "Error" \notin DOMAIN hist[i].body.tlv
        /\ hist[i].body.tlv.EncryptedData.nonce = PV_Msg02
        /\ hist[i].body.tlv.EncryptedData.key.ikm.kind = "dh"

\* C2: on one session the k-th frame encrypted and the k-th frame accepted
\* use counter k - 1, so no counter value is used twice under one key.
C2_CountersNeverReused ==
    /\ \A i \in DOMAIN SentFrames : SentFrames[i].counter = i - 1
    /\ \A i \in DOMAIN recvLog : recvLog[i].counter = i - 1
    /\ \A i, j \in DOMAIN SentFrames :
          (i # j /\ SentFrames[i].key = SentFrames[j].key)
              => SentFrames[i].counter # SentFrames[j].counter
    /\ \A i, j \in DOMAIN recvLog :
          (i # j /\ recvLog[i].key = recvLog[j].key)
              => recvLog[i].counter # recvLog[j].counter
    /\ session.send_counter = Len(SentFrames)
    /\ session.recv_counter = Len(recvLog)

\* C2 witness: two requests, one of them of two chunks, were encrypted and
\* frames of two responses were accepted.
C2_Witness ==
    /\ Len(SentFrames) >= 3
    /\ Len(recvLog) >= 3
    /\ "c_get" \in WireSites

\* C3: once a read on the established session failed (authentication tag or
\* I/O), the command only unwinds: no request is written afterwards and the
\* session is closed when the command ends.
C3_FailedSessionDiscarded ==
    /\ \A i \in DOMAIN wire : ~wire[i].broken
    /\ broken => pc \in {"finally", "done"}
    /\ (broken /\ pc = "done") => session.closed

\* C3 witness: a frame failed its authentication check after the first
\* encrypted response had been read, and the command has ended.
C3_Witness ==
    /\ broken
    /\ exc = "tag"
    /\ pc = "done"
    /\ Len(recvLog) >= 1
    /\ Len(wire) = 4

NoErrorFrom(site) ==
    \E i \in DOMAIN hist : hist[i].site = site /\ "Error" \notin DOMAIN hist[i].body.tlv

\* C4: the session keys are set only after M2 and M4 of pair-verify were
\* received without an Error entry; when pair_verify returns, both keys are
\* set, from the same shared secret under two different labels, and both
\* counters are 0.
C4_KeysOnlyAfterM4 ==
    /\ (session.encrypt_key # NoKey \/ session.decrypt_key # NoKey)
          => /\ NoErrorFrom("pv_m1")
             /\ NoErrorFrom("pv_m3")
             /\ verified
    /\ verified
          => /\ session.encrypt_key # NoKey
             /\ session.decrypt_key # NoKey
             /\ session.encrypt_key.ikm = session.decrypt_key.ikm
             /\ session.encrypt_key.info # session.decrypt_key.info
    /\ (verified /\ pc = "c_acc")
          => session.send_counter = 0 /\ session.recv_counter = 0

\* C4 witness: pair_verify has just returned.
C4_Witness ==
    /\ verified
    /\ pc = "c_acc"
    /\ Len(hist) = 2
    /\ session.encrypt_key.info = "Control-Write-Encryption-Key"

\* the i-th response of a pair-setup carries an Error entry, or is an M4
\* whose proof is not the proof of the SRP session
BadSetupResponse(i) ==
    /\ hist[i].site \in SetupSites
    /\ \/ "Error" \in DOMAIN hist[i].body.tlv
       \/ /\ hist[i].site = "ps_m3"
          /\ "Proof" \in DOMAIN hist[i].body.tlv
          /\ hist[i].body.tlv.Proof.of # hs.secret

\* C5: in a pair-setup, after an M2, M4 or M6 with an Error entry or an M4
\* whose proof does not verify, no further message is sent, no message is
\* sent twice, no pairing record is returned and the pairing file is as it
\* was when the command started.
C5_SetupAbortsOnError ==
    cmd.name = "pair" =>
        /\ \A i, j \in DOMAIN wire : i # j => wire[i].site # wire[j].site
        /\ \A i \in DOMAIN hist :
              BadSetupResponse(i)
                  => /\ Len(wire) = i
                     /\ hs.record = NoRecord
                     /\ pairings = pairings0
                     /\ pc = "done" => result = "error"

\* C5 witness: a pair command ended after an M6 with an Error entry while the
\* pairing file held a record.
C5_Witness ==
    /\ cmd.name = "pair"
    /\ pc = "done"
    /\ Len(hist) = 3
    /\ BadSetupResponse(3)
    /\ pairings0 # <<>>

\* C6: M5 is written only after an M4 was received whose proof is the proof
\* of the SRP session derived from the PIN and the salt and public key of M2.
C6_M5AfterProof ==
    \A k \in DOMAIN wire :
        wire[k].site = "ps_m5"
            => /\ k = 3
               /\ Len(hist) >= 2
               /\ hist[1].site = "ps_m1"
               /\ hist[2].site = "ps_m3"
               /\ "Error" \notin DOMAIN hist[2].body.tlv
               /\ "Proof" \in DOMAIN hist[2].body.tlv
               /\ hist[2].body.tlv.Proof.of =
                      [kind |-> "srp", a |-> cmd.pin,
                       b |-> hist[1].body.tlv.Salt, c |-> hist[1].body.tlv.PublicKey]

\* C6 witness: M5 has been written.
C6_Witness == "ps_m5" \in WireSites /\ pc = "rd_head"

C9_MismatchRejected == ~(excess /\ pc \in AfterPcs)

\* a request of the command layer failed: a read on the established session
\* failed, or a response body was not JSON
CommandRequestFailed ==
    \/ broken
    \/ \E i \in DOMAIN hist : hist[i].site \in CommandSites /\ hist[i].body.kind = "garbage"

\* C10: a list, get or set command in which a request failed ends with the
\* error, never with a result.
C10_ErrorsReachCaller ==
    (pc = "done" /\ CommandRequestFailed)
        => /\ result = "error"
           /\ exc \in {"io", "tag", "decode"}
           /\ hs.out = ""

\* C10 witness: a get command ended after its second response was not JSON.
C10_Witness ==
    /\ cmd.name = "get"
    /\ pc = "done"
    /\ Len(hist) = 4
    /\ hist[4].body.kind = "garbage"

-----------------------------------------------------------------------------
(* list, get and set against a paired accessory that keeps its values *)

\* the accessory documents: the volume characteristic, found by its type or
\* by its description, alone or after another characteristic
HonestDocs ==
    {[doc |-> <<VolumeByType>>, volume |-> <<1, 9>>],
     [doc |-> <<MuteChar, VolumeByType>>, volume |-> <<1, 9>>],
     [doc |-> <<MuteChar, VolumeByDesc>>, volume |-> <<1, 10>>]}

\* the accessory with document d, its volume set to v
HonestAccessory(d, v) ==
    [honest |-> TRUE, doc |-> d.doc, volume |-> d.volume, initial |-> v,
     values |-> [k \in {<<d.doc[i].aid, d.doc[i].iid>> : i \in DOMAIN d.doc} |->
                    IF k = d.volume THEN v ELSE 0]]

InitHonest ==
    /\ targets = {Speaker}
    /\ pairings = [k \in {PairingKey(Speaker)} |->
                      PairingRecord(1, "ltpk-A", "AA:BB:CC", Speaker)]
    /\ cmd = NoCmd
    /\ pc = "idle"
    /\ session = NewSession
    /\ ret = ""
    /\ acc = NoAcc
    /\ resp = NoResp
    /\ hs = NoHs
    /\ exc = "none"
    /\ result = ""
    /\ loaded = <<>>
    /\ wire = <<>>
    /\ hist = <<>>
    /\ recvLog = <<>>
    /\ broken = FALSE
    /\ outstanding = FALSE
    /\ excess = FALSE
    /\ verified = FALSE
    /\ pairings0 = pairings
    /\ \E d \in HonestDocs, v \in Values : accessory = HonestAccessory(d, v)
    /\ aeadLog = <<>>
    /\ conns = NoConns
    /\ returned = NoReturned
    /\ link = NoLink
    /\ probe = NoProbe
    /\ bridge = NoBridge
    /\ RestIdle

NextHonest ==
    \/ \E name \in {"list", "get", "set"}, ep \in targets, v \in Values \cup {0} :
          StartCommand(name, ep, v)
    \/ GetSessionLookup
    \/ Connect
    \/ \E len \in ReqLens : HttpRequest(len)
    \/ ReadHead
    \/ ReadBody
    \/ ReadFrame
    \/ ProcessVerifyM2
    \/ ProcessVerifyM4
    \/ ProcessAccessories
    \/ ProcessGet
    \/ ProcessPut
    \/ Finally
    \/ Exit

HonestSpec == InitHonest /\ [][NextHonest]_vars

-----------------------------------------------------------------------------
(* _find_volume on its own *)

MaxChars == 3         \* characteristics in an accessory document

\* the parsed /accessories responses: documents of up to MaxChars
\* characteristics, and an object without "accessories"
ProbeData ==
    {[accessories |-> d] :
        d \in UNION {[1..n -> Chars] : n \in 0..MaxChars}}
        \cup {[status |-> "-70401"]}

\* aid, iid = _find_volume(data)
FindCall ==
    /\ ~probe.done
    /\ probe' = [probe EXCEPT !.done = TRUE, !.out = FindVolume(probe.data)]
    /\ UNCHANGED <<targets, pairings, cmd, pc, session, ret, acc, resp, hs, exc, result,
                   loaded, wire, hist, recvLog, broken, outstanding, excess, verified,
                   pairings0, accessory, aeadLog, conns, returned, link, bridge, rest>>

InitFind ==
    /\ targets = {Speaker}
    /\ pairings = <<>>
    /\ cmd = NoCmd
    /\ pc = "idle"
    /\ session = NewSession
    /\ ret = ""
    /\ acc = NoAcc
    /\ resp = NoResp
    /\ hs = NoHs
    /\ exc = "none"
    /\ result = ""
    /\ loaded = <<>>
    /\ wire = <<>>
    /\ hist = <<>>
    /\ recvLog = <<>>
    /\ broken = FALSE
    /\ outstanding = FALSE
    /\ excess = FALSE
    /\ verified = FALSE
    /\ pairings0 = <<>>
    /\ accessory = NoAccessory
    /\ aeadLog = <<>>
    /\ conns = NoConns
    /\ returned = NoReturned
    /\ link = NoLink
    /\ \E d \in ProbeData : probe = [data |-> d, done |-> FALSE, out |-> NotFound]
    /\ bridge = NoBridge
    /\ RestIdle

NextFind == FindCall

FindSpec == InitFind /\ [][NextFind]_vars

-----------------------------------------------------------------------------
(* The encrypted transport on its own: one HapSession whose encrypt_key and  *)
(* decrypt_key are the same key sends messages to itself, so that            *)
(* _encrypt's frames are read with the independent recv_counter.             *)

MaxMessages == 2      \* messages given to _encrypt in one run
DataLens == {0, 1, ChunkSize - 1, ChunkSize, ChunkSize + 1, 2 * ChunkSize,
             2 * ChunkSize + 1}

LoopKey == hkdf_derive(Exchange("c1", "s1"), "Control-Salt", "Control-Write-Encryption-Key")

\* _encrypt(data) with len(data) = len; the frames are written to the link
LinkSend(len) ==
    /\ Len(link.calls) < MaxMessages
    /\ ~link.failed
    /\ LET e == Encrypt(len)
       IN  /\ session' = [session EXCEPT !.send_counter = e.send_counter]
           /\ link' = [link EXCEPT
                  !.calls = Append(@, [len |-> len, before |-> session.send_counter,
                                       frames |-> e.frames,
                                       after |-> e.send_counter]),
                  !.chan = @ \o [i \in DOMAIN e.frames |->
                                    [frame |-> e.frames[i],
                                     pos |-> link.total + e.frames[i].offset]],
                  !.total = @ + len]
    /\ UNCHANGED <<targets, pairings, cmd, pc, ret, acc, resp, hs, exc, result, loaded,
                   wire, hist, recvLog, broken, outstanding, excess, verified,
                   pairings0, accessory, aeadLog, conns, returned, probe, bridge, rest>>

\* the decryption loop of _read_encrypted_response on the next frame of the
\* link: a frame that opens adds its bytes to result, another raises
LinkReceive ==
    /\ link.chan # <<>>
    /\ ~link.failed
    /\ LET f == Head(link.chan)
       IN  IF FrameOpens(f.frame) /\ f.frame.aad = f.frame.prefix
           THEN /\ session' = [session EXCEPT
                       !.recv_counter = NextCounter(session.recv_counter)]
                /\ link' = [link EXCEPT
                       !.chan = Tail(@),
                       !.got = Append(@, [pos |-> f.pos, length |-> f.frame.length])]
           ELSE /\ link' = [link EXCEPT !.failed = TRUE]
                /\ UNCHANGED session
    /\ UNCHANGED <<targets, pairings, cmd, pc, ret, acc, resp, hs, exc, result, loaded,
                   wire, hist, recvLog, broken, outstanding, excess, verified,
                   pairings0, accessory, aeadLog, conns, returned, probe, bridge, rest>>

\* a frame is lost on the way
LinkDrop ==
    /\ link.chan # <<>>
    /\ ~link.lost /\ ~link.failed
    /\ link' = [link EXCEPT !.chan = Tail(@), !.lost = TRUE,
                            !.gotAtLoss = Len(link.got)]
    /\ UNCHANGED <<targets, pairings, cmd, pc, session, ret, acc, resp, hs, exc, result,
                   loaded, wire, hist, recvLog, broken, outstanding, excess, verified,
                   pairings0, accessory, aeadLog, conns, returned, probe, bridge, rest>>

\* the receiver skips one counter value
LinkSkip ==
    /\ ~link.lost /\ ~link.failed
    /\ session' = [session EXCEPT !.recv_counter = @ + 1]
    /\ link' = [link EXCEPT !.lost = TRUE, !.gotAtLoss = Len(link.got)]
    /\ UNCHANGED <<targets, pairings, cmd, pc, ret, acc, resp, hs, exc, result, loaded,
                   wire, hist, recvLog, broken, outstanding, excess, verified,
                   pairings0, accessory, aeadLog, conns, returned, probe, bridge, rest>>

InitLink ==
    /\ targets = {Speaker}
    /\ pairings = <<>>
    /\ cmd = NoCmd
    /\ pc = "idle"
    /\ session = [NewSession EXCEPT !.connected = TRUE,
                                    !.encrypt_key = LoopKey, !.decrypt_key = LoopKey]
    /\ ret = ""
    /\ acc = NoAcc
    /\ resp = NoResp
    /\ hs = NoHs
    /\ exc = "none"
    /\ result = ""
    /\ loaded = <<>>
    /\ wire = <<>>
    /\ hist = <<>>
    /\ recvLog = <<>>
    /\ broken = FALSE
    /\ outstanding = FALSE
    /\ excess = FALSE
    /\ verified = FALSE
    /\ pairings0 = <<>>
    /\ accessory = NoAccessory
    /\ aeadLog = <<>>
    /\ conns = NoConns
    /\ returned = NoReturned
    /\ link = NoLink
    /\ probe = NoProbe
    /\ bridge = NoBridge
    /\ RestIdle

NextLink ==
    \/ \E len \in DataLens : LinkSend(len)
    \/ LinkReceive
    \/ LinkDrop
    \/ LinkSkip

LinkSpec == InitLink /\ [][NextLink]_vars

-----------------------------------------------------------------------------
(* The pairing store *)

SevenFields == {"iOSDeviceLTSK", "iOSDeviceLTPK", "iOSPairingId", "AccessoryLTPK",
                "AccessoryPairingID", "AccessoryAddress", "AccessoryPort"}

\* r has the seven fields, its two controller keys belong to one key pair,
\* and its address is the one of the key it is stored under
CompleteRecord(k, r) ==
    /\ DOMAIN r = SevenFields
    /\ r.iOSDeviceLTSK[1] = "hex" /\ r.iOSDeviceLTPK[1] = "hex"
    /\ r.iOSDeviceLTSK[2][1] = "sk" /\ r.iOSDeviceLTPK[2][1] = "pk"
    /\ r.iOSDeviceLTSK[2][2] = r.iOSDeviceLTPK[2][2]
    /\ k = <<r.AccessoryAddress, ":", r.AccessoryPort>>

\* r holds what the M6 of the running pair-setup carried and the key pair
\* generated for it
FromThisSetup(r) ==
    /\ Len(hist) = 3
    /\ \A i \in 1..3 : "Error" \notin DOMAIN hist[i].body.tlv
    /\ r.AccessoryLTPK = <<"hex", hist[3].body.tlv.EncryptedData.pt.PublicKey>>
    /\ r.AccessoryPairingID = hist[3].body.tlv.EncryptedData.pt.Identifier
    /\ r.iOSDeviceLTSK = <<"hex", <<"sk", hs.ltsk>>>>
    /\ r.AccessoryAddress = cmd.ep.host /\ r.AccessoryPort = cmd.ep.port

\* C11: every stored entry is a complete seven-field record; the store
\* changes only when a pair-setup succeeded, and then the entry under the
\* command's host:port key is the record of that pair-setup, all fields at
\* once, and every other entry is as it was.
C11_StoreHoldsWholeRecords ==
    /\ \A k \in DOMAIN pairings : CompleteRecord(k, pairings[k])
    /\ pairings # pairings0
          => /\ cmd.name = "pair"
             /\ pc \in {"finally", "done"}
             /\ exc = "none"
             /\ DOMAIN pairings = DOMAIN pairings0 \cup {<<cmd.ep.host, ":", cmd.ep.port>>}
             /\ FromThisSetup(pairings[<<cmd.ep.host, ":", cmd.ep.port>>])
             /\ \A k \in DOMAIN pairings0 :
                    k # <<cmd.ep.host, ":", cmd.ep.port>> => pairings[k] = pairings0[k]
    /\ (cmd.name = "pair" /\ pc = "done" /\ result = "error") => pairings = pairings0

\* C11 witness: a re-pair has replaced the record of one accessory with
\* another controller key and another accessory key, while the store held
\* a record for the other accessory.
C11_Witness ==
    /\ cmd.name = "pair" /\ pc = "done" /\ result = "ok"
    /\ Cardinality(DOMAIN pairings0) = 2
    /\ LET k == <<cmd.ep.host, ":", cmd.ep.port>>
       IN  /\ pairings[k].iOSDeviceLTSK # pairings0[k].iOSDeviceLTSK
           /\ pairings[k].AccessoryLTPK # pairings0[k].AccessoryLTPK

-----------------------------------------------------------------------------
(* _get_session *)

\* C12: a list, get or set command never writes a /pair-setup request; when
\* the pairing file holds no record under host:port the command opens no
\* connection, writes nothing and ends with exit status 1; when it holds one,
\* every /accessories or /characteristics request comes after the two
\* /pair-verify requests, on a session pair_verify returned for.
C12_LookupThenVerify ==
    cmd.name \in {"list", "get", "set"} =>
        /\ \A i \in DOMAIN wire : wire[i].path # "/pair-setup"
        /\ <<cmd.ep.host, ":", cmd.ep.port>> \notin DOMAIN pairings0
              => /\ conns.opened = 0
                 /\ wire = <<>>
                 /\ pc \in {"gs_lookup", "done"}
                 /\ pc = "done" => result = "exit1" /\ hs.out = ""
        /\ \A i \in DOMAIN wire :
              wire[i].path \in {"/accessories", "/characteristics"}
                  => /\ <<cmd.ep.host, ":", cmd.ep.port>> \in DOMAIN pairings0
                     /\ i >= 3
                     /\ wire[1].site = "pv_m1" /\ wire[2].site = "pv_m3"
                     /\ wire[i].verified
                     /\ conns.opened = 1

\* C12 witness: a set command found a record, ran pair-verify and has
\* written its PUT /characteristics request.
C12_Witness ==
    /\ cmd.name = "set"
    /\ <<cmd.ep.host, ":", cmd.ep.port>> \in DOMAIN pairings0
    /\ Len(wire) = 4
    /\ wire[1].path = "/pair-verify"
    /\ wire[4].site = "c_put"

-----------------------------------------------------------------------------
(* _encrypt and the decryption loop *)

\* the number a little-endian byte string stands for
RECURSIVE FromLittleEndian(_)
FromLittleEndian(bytes) ==
    IF bytes = <<>> THEN 0 ELSE Head(bytes) + 256 * FromLittleEndian(Tail(bytes))

\* C13: _encrypt on n bytes gives ceil(n / 1024) frames that hold the bytes in
\* order, at most 1024 each and exactly 1024 in all but the last; each frame
\* is prefixed by its length as 2 little-endian bytes, which are its
\* associated data; the k-th frame (from 0) has the 12-byte nonce of
\* send_counter + k, and send_counter grows by the number of frames, by 0
\* for empty input.
C13_EncryptFrames ==
    \A c \in DOMAIN link.calls :
        LET call == link.calls[c]
            fs == call.frames
        IN  /\ Len(fs) = (call.len + ChunkSize - 1) \div ChunkSize
            /\ call.after = call.before + Len(fs)
            /\ call.len = 0 => fs = <<>> /\ call.after = call.before
            /\ call.len > 0 => fs[Len(fs)].offset + fs[Len(fs)].length = call.len
            /\ \A k \in DOMAIN fs :
                  /\ fs[k].length \in 1..ChunkSize
                  /\ k < Len(fs) => fs[k].length = ChunkSize
                  /\ fs[k].offset = (k - 1) * ChunkSize
                  /\ Len(fs[k].prefix) = 2
                  /\ FromLittleEndian(fs[k].prefix) = fs[k].length
                  /\ fs[k].aad = fs[k].prefix
                  /\ Len(fs[k].nonce) = 12
                  /\ FromLittleEndian(fs[k].nonce) = call.before + (k - 1)
                  /\ \A i \in 9..12 : fs[k].nonce[i] = 0
                  /\ fs[k].key = session.encrypt_key

\* C13 witness: after a first message, _encrypt was given 2 * 1024 + 1 bytes
\* and gave three frames.
C13_Witness ==
    /\ Len(link.calls) = 2
    /\ link.calls[1].len = ChunkSize + 1
    /\ link.calls[2].len = 2 * ChunkSize + 1
    /\ link.calls[2].before = 2
    /\ Len(link.calls[2].frames) = 3
    /\ session.send_counter = 5

\* the bytes of got follow one another from the first byte sent
Contiguous(got) ==
    \A i \in DOMAIN got :
        got[i].pos = IF i = 1 THEN 0 ELSE got[i - 1].pos + got[i - 1].length

ReceivedBytes == IF link.got = <<>> THEN 0
                 ELSE link.got[Len(link.got)].pos + link.got[Len(link.got)].length

\* C14: with both counters started at 0, the receiver decrypts the sender's
\* frames to the bytes that were sent, in order and all of them; once a frame
\* was dropped or the receiver skipped a counter value, no further frame
\* decrypts.
C14_RoundTrip ==
    /\ Contiguous(link.got)
    /\ ReceivedBytes <= link.total
    /\ ~link.lost => ~link.failed
    /\ (~link.lost /\ link.chan = <<>>) => ReceivedBytes = link.total
    /\ link.lost => Len(link.got) = link.gotAtLoss

\* C14 witness: a first message of two frames was received whole, then a
\* frame of the second message was dropped and the frame after it failed.
C14_Witness ==
    /\ Len(link.calls) = 2
    /\ link.calls[1].len = ChunkSize + 1
    /\ link.calls[2].len = 2 * ChunkSize
    /\ ReceivedBytes = ChunkSize + 1
    /\ Len(link.got) = 2
    /\ link.lost /\ link.failed
    /\ session.recv_counter = 2

-----------------------------------------------------------------------------
(* get and set *)

\* C15: against an accessory that keeps its values, a set command that
\* reports "Volume set to v" has made v the value of the volume
\* characteristic, and a get command that reports a volume reports the
\* value the accessory holds for it: the one last written, or the initial
\* one.
C15_GetReturnsLastSet ==
    accessory.honest =>
        /\ (cmd.name = "set" /\ hs.out = "set")
              => accessory.values[accessory.volume] = cmd.value
        /\ (cmd.name = "get" /\ hs.out = "volume")
              => hs.val = accessory.values[accessory.volume]
        /\ (cmd.name \in {"get", "set"} /\ pc = "done" /\ result = "ok")
              => hs.out \in {"set", "volume"}
        /\ \A i \in DOMAIN wire :
              wire[i].site \in {"c_get", "c_put"}
                  => <<wire[i].req.aid, wire[i].req.iid>> = accessory.volume

\* C15 witness: a get command reports a volume that is not the initial one:
\* an earlier set command wrote it.
C15_Witness ==
    /\ accessory.honest
    /\ cmd.name = "get" /\ pc = "done" /\ result = "ok"
    /\ hs.out = "volume"
    /\ hs.val # accessory.initial
    /\ hs.val = 30

-----------------------------------------------------------------------------
(* _find_volume *)

\* the characters 1, 1, 9 follow one another in the type of c
TypeMatches(c) ==
    \E i \in 1..(Len(c.type) - 2) :
        c.type[i] = 1 /\ c.type[i + 1] = 1 /\ c.type[i + 2] = 9

DescriptionMatches(c) == c.description \in {"Volume", "volume"}

ProbeChars ==
    IF "accessories" \in DOMAIN probe.data
    THEN {probe.data.accessories[i] : i \in DOMAIN probe.data.accessories}
    ELSE {}

\* C16 (as claimed): when a characteristic of the document matches by type,
\* _find_volume returns one that matches by type; it returns (None, None)
\* exactly when no characteristic matches by type or by description.
C16_TypeFirst ==
    probe.done =>
        /\ (\E c \in ProbeChars : TypeMatches(c))
              => \E c \in ProbeChars : TypeMatches(c) /\ probe.out = <<c.aid, c.iid>>
        /\ probe.out = <<>>
              <=> ~\E c \in ProbeChars : TypeMatches(c) \/ DescriptionMatches(c)

-----------------------------------------------------------------------------
(* Nonces of the handshakes *)

\* C17: pair-setup M5 and M6 and pair-verify M2 and M3 are sealed or opened
\* each with its own literal; no two uses of a handshake share key and
\* nonce, and none shares them with a frame of the session transport.
C17_HandshakeNonces ==
    /\ \A i \in DOMAIN aeadLog :
          aeadLog[i].nonce =
              CASE aeadLog[i].msg = "ps_m5" -> PS_Msg05
                [] aeadLog[i].msg = "ps_m6" -> PS_Msg06
                [] aeadLog[i].msg = "pv_m2" -> PV_Msg02
                [] OTHER -> PV_Msg03
    /\ \A i, j \in DOMAIN aeadLog :
          i # j => ~(aeadLog[i].key = aeadLog[j].key /\ aeadLog[i].nonce = aeadLog[j].nonce)
    /\ \A i \in DOMAIN aeadLog :
          /\ \A k \in DOMAIN SentFrames :
                ~(SentFrames[k].key = aeadLog[i].key /\ SentFrames[k].nonce = aeadLog[i].nonce)
          /\ \A k \in DOMAIN recvLog :
                ~(recvLog[k].key = aeadLog[i].key /\ recvLog[k].nonce = aeadLog[i].nonce)
          /\ \A k \in DOMAIN SentFrames : SentFrames[k].nonce # aeadLog[i].nonce
          /\ \A k \in DOMAIN recvLog : recvLog[k].nonce # aeadLog[i].nonce

\* C17 witness: M2 of a pair-verify was opened and M3 sealed under the same
\* key, and frames have gone both ways on the session that followed.
C17_Witness ==
    /\ Len(aeadLog) = 2
    /\ aeadLog[1].msg = "pv_m2" /\ aeadLog[1].op = "decrypt"
    /\ aeadLog[2].msg = "pv_m3" /\ aeadLog[2].op = "encrypt"
    /\ aeadLog[1].key = aeadLog[2].key
    /\ Len(SentFrames) >= 2
    /\ Len(recvLog) >= 2

-----------------------------------------------------------------------------
(* Round trips of pair-setup *)

\* pair_setup has returned its record to cmd_pair
SetupSucceeded == cmd.name = "pair" /\ hs.record # NoRecord

\* C18: a successful pair-setup is three request/response round trips
\* (M1/M2, M3/M4, M5/M6), in that order, all on the one connection that the
\* command opened.
C18_ThreeRoundTrips ==
    SetupSucceeded =>
        /\ [i \in DOMAIN wire |-> wire[i].site] = <<"ps_m1", "ps_m3", "ps_m5">>
        /\ [i \in DOMAIN hist |-> hist[i].site] = <<"ps_m1", "ps_m3", "ps_m5">>
        /\ \A i \in DOMAIN wire : wire[i].path = "/pair-setup" /\ ~wire[i].enc
        /\ conns.opened = 1
        /\ conns.closed = IF pc \in {"done"} THEN 1 ELSE 0

\* C18 as stated: a successful pair-setup is four round trips on a single
\* connection.
C18_FourRoundTrips ==
    SetupSucceeded => Len(wire) = 4 /\ Len(hist) = 4 /\ conns.opened = 1

\* C18 witness: a pairing was saved after three round trips and the
\* connection closed.
C18_Witness ==
    /\ SetupSucceeded
    /\ hs.out = "saved"
    /\ pc = "done"
    /\ Len(wire) = 3 /\ Len(hist) = 3
    /\ conns = [opened |-> 1, closed |-> 1]

-----------------------------------------------------------------------------
(* The reader of encrypted responses *)

\* the request being answered, or just answered, went out encrypted
LastEncrypted == wire # <<>> /\ wire[Len(wire)].enc

\* C19: _read_encrypted_response goes on reading while the plaintext lacks
\* the blank line or holds fewer body bytes than Content-Length, adds 1 to
\* recv_counter for each frame it opens, and returns exactly the first
\* Content-Length body bytes, never fewer.
C19_ReaderReturnsWholeBody ==
    /\ (pc = "rd_frame" /\ LastEncrypted) =>
          /\ ~(acc.hdr /\ acc.body >= acc.cl)
          /\ Len(recvLog) >= acc.frames
          /\ \A k \in 1..acc.frames :
                recvLog[Len(recvLog) - acc.frames + k].counter
                    = session.recv_counter - acc.frames + k - 1
    /\ (pc \in AfterPcs /\ LastEncrypted) =>
          /\ returned.frames >= 1
          /\ returned.hdr
          /\ returned.body >= returned.cl
          /\ returned.len = returned.cl
          /\ Len(recvLog) >= returned.frames
          /\ \A k \in 1..returned.frames :
                recvLog[Len(recvLog) - returned.frames + k].counter
                    = session.recv_counter - returned.frames + k - 1

\* C19 witness: the reader returned after its second frame, the first having
\* brought the header block and fewer body bytes than declared.
C19_Witness ==
    /\ pc \in AfterPcs
    /\ LastEncrypted
    /\ returned.frames = 2
    /\ returned.cl = 2
    /\ returned.len = 2
    /\ session.recv_counter >= 2

-----------------------------------------------------------------------------
(* AppleTVBridge: schedule_reconnect and the reconnection loop.  Each task   *)
(* is a _reconnect_loop coroutine; pc is the await it is suspended at        *)
(* ("start" before it first runs and at the top of the while loop).          *)

MaxCalls == 3                     \* calls of schedule_reconnect in one run
RECONNECT_BACKOFF_BASE == 2       \* _RECONNECT_BACKOFF_BASE
RECONNECT_BACKOFF_MAX == 60       \* _RECONNECT_BACKOFF_MAX
MAX_RECONNECT_ATTEMPTS == 5       \* _MAX_RECONNECT_ATTEMPTS

\* attempts and won are history: the calls of connect() the loop made, and
\* whether one of them returned normally
NewTask == [pc |-> "start", cancelled |-> FALSE, backoff |-> 0, attempts |-> 0,
            won |-> FALSE]

\* every task counts as finished
TaskDoneAlways(t) == TRUE

\* self._reconnect_task.done()
TaskDone(t) == t.pc = "done"

Running == {i \in DOMAIN bridge.tasks : ~(bridge.tasks[i].pc = "done")}

BridgeOnly ==
    UNCHANGED <<targets, pairings, cmd, pc, session, ret, acc, resp, hs, exc, result,
                loaded, wire, hist, recvLog, broken, outstanding, excess, verified,
                pairings0, accessory, aeadLog, conns, returned, link, probe, rest>>

\* schedule_reconnect(): synchronous, so it runs between two steps of any
\* task
Scheduled(bridge0) ==
    LET b == [bridge0 EXCEPT !.calls = @ + 1]
    IN  IF b.closing THEN b
        ELSE IF b.task # 0 /\ ~TaskDone(b.tasks[b.task]) THEN b
        ELSE [b EXCEPT !.tasks = Append(@, NewTask),
                      !.task = Len(b.tasks) + 1]

\* a call of schedule_reconnect()
ScheduleReconnect ==
    /\ bridge.calls < MaxCalls
    /\ bridge' = Scheduled(bridge)
    /\ BridgeOnly

\* the delay grows by the base with each attempt
BackoffLinear(count) ==
    Min(RECONNECT_BACKOFF_BASE * (count + 1), RECONNECT_BACKOFF_MAX)

\* the minimum of _RECONNECT_BACKOFF_BASE * 2 ** count and the cap
Backoff(count) == Min(RECONNECT_BACKOFF_BASE * (2 ^ count), RECONNECT_BACKOFF_MAX)

\* _reconnect_loop from the while test to "await asyncio.sleep(backoff)"
LoopTop(i) ==
    /\ i \in DOMAIN bridge.tasks
    /\ bridge.tasks[i].pc = "start"
    /\ bridge' =
          IF bridge.tasks[i].cancelled \/ bridge.closing
                \/ bridge.count >= MAX_RECONNECT_ATTEMPTS
          THEN [bridge EXCEPT !.tasks[i].pc = "done"]
          ELSE [bridge EXCEPT !.tasks[i].pc = "sleep",
                              !.tasks[i].backoff = Backoff(bridge.count),
                              !.count = @ + 1]
    /\ BridgeOnly

\* the sleep ends: CancelledError returns, _closing returns, else connect()
\* runs up to "await pyatv.scan"
LoopWake(i) ==
    /\ i \in DOMAIN bridge.tasks
    /\ bridge.tasks[i].pc = "sleep"
    /\ bridge' =
          IF bridge.tasks[i].cancelled \/ bridge.closing
          THEN [bridge EXCEPT !.tasks[i].pc = "done"]
          ELSE [bridge EXCEPT !.tasks[i].pc = "scan",
                              !.tasks[i].attempts = @ + 1,
                              !.closing = FALSE]
    /\ BridgeOnly

\* pyatv.scan returns or raises; a ConnectionError of connect() sends the
\* loop to its next turn
ScanDone(i) ==
    /\ i \in DOMAIN bridge.tasks
    /\ bridge.tasks[i].pc = "scan"
    /\ \E outcome \in {"raised", "empty", "found"} :
          bridge' =
              IF bridge.tasks[i].cancelled
              THEN [bridge EXCEPT !.tasks[i].pc = "done"]
              ELSE IF outcome = "found"
              THEN [bridge EXCEPT !.tasks[i].pc = "connect"]
              ELSE [bridge EXCEPT !.tasks[i].pc = "start", !.failed = @ + 1]
    /\ BridgeOnly

\* pyatv.connect returns or raises: AuthenticationError and
\* ConnectionFailedError become ConnectionError, any other exception leaves
\* the loop
ConnectDone(i) ==
    /\ i \in DOMAIN bridge.tasks
    /\ bridge.tasks[i].pc = "connect"
    /\ \E outcome \in {"connected", "refused", "other"} :
          bridge' =
              IF bridge.tasks[i].cancelled
              THEN [bridge EXCEPT !.tasks[i].pc = "done"]
              ELSE IF outcome = "other"
              THEN [bridge EXCEPT !.tasks[i].pc = "done", !.failed = @ + 1,
                                  !.crashed = @ \cup {i}]
              ELSE IF outcome = "connected"
              THEN [bridge EXCEPT !.tasks[i].pc = "done", !.tasks[i].won = TRUE,
                                  !.atv = TRUE, !.count = 0, !.failed = 0]
              ELSE [bridge EXCEPT !.tasks[i].pc = "start", !.failed = @ + 1]
    /\ BridgeOnly

InitReconnect ==
    /\ targets = {Speaker}
    /\ pairings = <<>>
    /\ cmd = NoCmd
    /\ pc = "idle"
    /\ session = NewSession
    /\ ret = ""
    /\ acc = NoAcc
    /\ resp = NoResp
    /\ hs = NoHs
    /\ exc = "none"
    /\ result = ""
    /\ loaded = <<>>
    /\ wire = <<>>
    /\ hist = <<>>
    /\ recvLog = <<>>
    /\ broken = FALSE
    /\ outstanding = FALSE
    /\ excess = FALSE
    /\ verified = FALSE
    /\ pairings0 = <<>>
    /\ accessory = NoAccessory
    /\ aeadLog = <<>>
    /\ conns = NoConns
    /\ returned = NoReturned
    /\ link = NoLink
    /\ probe = NoProbe
    /\ bridge = NoBridge
    /\ RestIdle

NextReconnect ==
    \/ ScheduleReconnect
    \/ \E i \in 1..MaxCalls :
          \/ LoopTop(i)
          \/ LoopWake(i)
          \/ ScanDone(i)
          \/ ConnectDone(i)

ReconnectSpec == InitReconnect /\ [][NextReconnect]_vars

\* C20: whatever the calls of schedule_reconnect and wherever the loop is,
\* at most one _reconnect_loop task is unfinished, and it is the one
\* _reconnect_task refers to.
C20_OneReconnectLoop ==
    /\ Cardinality(Running) <= 1
    /\ \A i \in Running : bridge.task = i

\* C20 witness: a second loop was started after the first had ended, and a
\* further call found it running and started nothing.
C20_Witness ==
    /\ bridge.calls = 3
    /\ Len(bridge.tasks) = 2
    /\ bridge.tasks[1].pc = "done"
    /\ bridge.tasks[2].pc \in {"sleep", "scan", "connect"}
    /\ Running = {2}

\* the connect attempts of the loops that have begun and not ended: a loop
\* counts its attempt before it sleeps
InProgress ==
    {i \in DOMAIN bridge.tasks : bridge.tasks[i].pc \in {"sleep", "scan", "connect"}}

\* C21: a reconnection loop calls connect() at most five times; before the
\* attempt that follows k failed ones (counted since the last successful
\* connect) it sleeps min(2 * 2^k, 60) seconds; the loop whose connect()
\* succeeded has ended; and _reconnect_count is the number of attempts since
\* the last successful connect, so 0 once a connect succeeded.
C21_BoundedBackoff ==
    /\ \A i \in DOMAIN bridge.tasks :
          /\ bridge.tasks[i].attempts <= 5
          /\ bridge.tasks[i].pc = "sleep" =>
                /\ bridge.failed <= 4
                /\ bridge.tasks[i].backoff =
                      CASE bridge.failed = 0 -> 2
                        [] bridge.failed = 1 -> 4
                        [] bridge.failed = 2 -> 8
                        [] bridge.failed = 3 -> 16
                        [] OTHER -> 32
          /\ bridge.tasks[i].won => bridge.tasks[i].pc = "done"
    /\ bridge.count = bridge.failed + Cardinality(InProgress)
    /\ bridge.count <= 5

\* C21 witness: a loop connected at its fifth attempt, after sleeps of 2, 4,
\* 8, 16 and 32 seconds, and the count is 0 again.
C21_Witness ==
    /\ Len(bridge.tasks) = 1
    /\ bridge.tasks[1] = [pc |-> "done", cancelled |-> FALSE, backoff |-> 32,
                          attempts |-> 5, won |-> TRUE]
    /\ bridge.count = 0
    /\ bridge.atv

-----------------------------------------------------------------------------
(* CLIAirplayManager: start(), stop(), the subprocess and _monitor_process.  *)
(* A monitor task's pc is the await it is suspended at: "start" before it    *)
(* first runs, "wait" in _process.wait(), "stderr" in stderr.read(), "sleep" *)
(* in asyncio.sleep(backoff), "spawn" in the create_subprocess_exec of the   *)
(* start() it called.                                                        *)

MaxProcs == 7                  \* subprocesses spawned in one run
MaxOps == 3                    \* calls of start() and stop() in one run
RESTART_BACKOFF_BASE == 2      \* _RESTART_BACKOFF_BASE
RESTART_BACKOFF_MAX == 60      \* _RESTART_BACKOFF_MAX
MAX_RESTART_ATTEMPTS == 5      \* _MAX_RESTART_ATTEMPTS

NewMonitor == [pc |-> "start", cancelled |-> FALSE, backoff |-> 0, proc |-> 0]

ManagerOnly ==
    UNCHANGED <<targets, pairings, cmd, pc, session, ret, acc, resp, hs, exc, result,
                loaded, wire, hist, recvLog, broken, outstanding, excess, verified,
                pairings0, accessory, aeadLog, conns, returned, link, probe, bridge, flow,
                entry, pairers>>

\* "self._process is not None and self._process.returncode is None"
ProcessRunning(m) == m.process # 0 /\ m.procs[m.process].alive

\* the end of start(): the new subprocess becomes _process, the restart
\* count is set to 0 and a new monitor task is created
Spawned(m, by) ==
    [m EXCEPT !.procs = Append(@, [alive |-> TRUE, by |-> by]),
              !.process = Len(m.procs) + 1,
              !.restart_count = 0,
              !.tasks = Append(@, NewMonitor),
              !.monitor = Len(m.tasks) + 1,
              !.streak = IF by = "monitor" THEN @ + 1 ELSE 0]

\* the setup of a config entry calls start() on the manager it constructed,
\* and a caller may start again what it stopped
StartAllowed == manager.ops = 0 \/ manager.stopped

\* start() called from outside, up to its first await
StartCall ==
    /\ manager.op.name = "none"
    /\ manager.ops < MaxOps
    /\ StartAllowed
    /\ manager' =
          LET m == [manager EXCEPT !.ops = @ + 1, !.stopped = FALSE]
          IN  IF ProcessRunning(m) THEN m
              ELSE [m EXCEPT !.stopping = FALSE,
                             !.op = [NoOp EXCEPT !.name = "start",
                                       !.pc = IF m.binary THEN "spawn" ELSE "binary"]]
    /\ ManagerOnly

\* _get_binary_path and os.chmod in the executor
StartBinary ==
    /\ manager.op.name = "start" /\ manager.op.pc = "binary"
    /\ \E outcome \in {"found", "not_found", "chmod_failed"} :
          manager' =
              IF outcome = "found"
              THEN [manager EXCEPT !.binary = TRUE, !.op.pc = "spawn"]
              ELSE IF outcome = "chmod_failed"
              THEN [manager EXCEPT !.binary = TRUE, !.op = NoOp]
              ELSE [manager EXCEPT !.op = NoOp]
    /\ ManagerOnly

\* asyncio.create_subprocess_exec returns or raises OSError
StartSpawn ==
    /\ manager.op.name = "start" /\ manager.op.pc = "spawn"
    /\ \E outcome \in {"spawned", "oserror"} :
          /\ outcome = "spawned" => Len(manager.procs) < MaxProcs
          /\ manager' =
                IF outcome = "spawned"
                THEN [Spawned(manager, "start") EXCEPT !.op = NoOp]
                ELSE [manager EXCEPT !.op = NoOp]
    /\ ManagerOnly

\* the subprocess exits by itself
Crash ==
    /\ \E p \in DOMAIN manager.procs :
          /\ manager.procs[p].alive
          /\ manager' = [manager EXCEPT !.procs[p].alive = FALSE]
    /\ ManagerOnly

\* stop() from "if self._process is None or ..." on
StopProcess(m) ==
    IF ~ProcessRunning(m)
    THEN [m EXCEPT !.process = 0, !.op = NoOp, !.stopped = TRUE,
                   !.atStop = Len(m.procs)]
    ELSE [m EXCEPT !.op = [NoOp EXCEPT !.name = "stop", !.pc = "await_exit",
                                       !.proc = m.process]]

\* stop() up to its first await: the monitor task is cancelled and awaited
StopCall ==
    /\ manager.op.name = "none"
    /\ manager.ops < MaxOps
    /\ manager' =
          LET m == [manager EXCEPT !.ops = @ + 1, !.stopping = TRUE]
          IN  IF m.monitor # 0
              THEN [m EXCEPT !.tasks[m.monitor].cancelled =
                                 ~(m.tasks[m.monitor].pc = "done"),
                             !.op = [NoOp EXCEPT !.name = "stop",
                                       !.pc = "await_monitor", !.task = m.monitor]]
              ELSE StopProcess(m)
    /\ ManagerOnly

\* "await self._monitor_task" returns
StopAwaited ==
    /\ manager.op.name = "stop" /\ manager.op.pc = "await_monitor"
    /\ manager.tasks[manager.op.task].pc = "done"
    /\ manager' = StopProcess([manager EXCEPT !.monitor = 0])
    /\ ManagerOnly

\* the terminated (or killed) subprocess has exited: "self._process = None"
StopExited ==
    /\ manager.op.name = "stop" /\ manager.op.pc = "await_exit"
    /\ manager' = [manager EXCEPT !.procs[manager.op.proc].alive = FALSE,
                                  !.process = 0, !.op = NoOp, !.stopped = TRUE,
                                  !.atStop = Len(manager.procs)]
    /\ ManagerOnly

\* min(_RESTART_BACKOFF_BASE * (2 ** self._restart_count), _RESTART_BACKOFF_MAX)
RestartBackoff(count) ==
    Min(RESTART_BACKOFF_BASE * (2 ^ count), RESTART_BACKOFF_MAX)

Ended(m, i) == [m EXCEPT !.tasks[i].pc = "done"]

\* _monitor_process from the while test to "await self._process.wait()"
MonitorTop(i) ==
    /\ i \in DOMAIN manager.tasks
    /\ manager.tasks[i].pc = "start"
    /\ manager' =
          IF manager.tasks[i].cancelled \/ manager.stopping \/ manager.process = 0
          THEN Ended(manager, i)
          ELSE [manager EXCEPT !.tasks[i].pc = "wait",
                               !.tasks[i].proc = manager.process]
    /\ ManagerOnly

\* the subprocess waited for has exited, or the task was cancelled
MonitorWaited(i) ==
    /\ i \in DOMAIN manager.tasks
    /\ manager.tasks[i].pc = "wait"
    /\ manager.tasks[i].cancelled \/ ~manager.procs[manager.tasks[i].proc].alive
    /\ manager' =
          IF manager.tasks[i].cancelled \/ manager.stopping
          THEN Ended(manager, i)
          ELSE [manager EXCEPT !.tasks[i].pc = "stderr"]
    /\ ManagerOnly

\* from the end of stderr.read() to "await asyncio.sleep(backoff)"
MonitorCrashed(i) ==
    /\ i \in DOMAIN manager.tasks
    /\ manager.tasks[i].pc = "stderr"
    /\ manager' =
          IF manager.tasks[i].cancelled
          THEN Ended(manager, i)
          ELSE IF manager.restart_count >= MAX_RESTART_ATTEMPTS
          THEN [Ended(manager, i) EXCEPT !.process = 0]
          ELSE [manager EXCEPT !.process = 0,
                               !.tasks[i].pc = "sleep",
                               !.tasks[i].backoff = RestartBackoff(manager.restart_count),
                               !.restart_count = @ + 1]
    /\ ManagerOnly

\* the monitor goes on to restart whatever happened during its sleep
SleepEndsMonitorNever(i) == FALSE

\* "except asyncio.CancelledError: return" and "if self._stopping: return"
\* after the sleep
SleepEndsMonitor(i) == manager.tasks[i].cancelled \/ manager.stopping

\* the sleep ends; unless cancelled or stopping the monitor calls start(),
\* which returns at once when a subprocess is running
MonitorWake(i) ==
    /\ i \in DOMAIN manager.tasks
    /\ manager.tasks[i].pc = "sleep"
    /\ manager' =
          IF SleepEndsMonitor(i) \/ ProcessRunning(manager)
          THEN Ended(manager, i)
          ELSE [manager EXCEPT !.stopping = FALSE, !.tasks[i].pc = "spawn"]
    /\ ManagerOnly

\* the create_subprocess_exec of the monitor's start() returns or raises;
\* the monitor returns in both cases
MonitorSpawn(i) ==
    /\ i \in DOMAIN manager.tasks
    /\ manager.tasks[i].pc = "spawn"
    /\ \E outcome \in {"spawned", "oserror"} :
          /\ (outcome = "spawned" /\ ~manager.tasks[i].cancelled)
                => Len(manager.procs) < MaxProcs
          /\ manager' =
                IF manager.tasks[i].cancelled \/ outcome = "oserror"
                THEN Ended(manager, i)
                ELSE Ended(Spawned(manager, "monitor"), i)
    /\ ManagerOnly

InitManager ==
    /\ targets = {Speaker}
    /\ pairings = <<>>
    /\ cmd = NoCmd
    /\ pc = "idle"
    /\ session = NewSession
    /\ ret = ""
    /\ acc = NoAcc
    /\ resp = NoResp
    /\ hs = NoHs
    /\ exc = "none"
    /\ result = ""
    /\ loaded = <<>>
    /\ wire = <<>>
    /\ hist = <<>>
    /\ recvLog = <<>>
    /\ broken = FALSE
    /\ outstanding = FALSE
    /\ excess = FALSE
    /\ verified = FALSE
    /\ pairings0 = <<>>
    /\ accessory = NoAccessory
    /\ aeadLog = <<>>
    /\ conns = NoConns
    /\ returned = NoReturned
    /\ link = NoLink
    /\ probe = NoProbe
    /\ bridge = NoBridge
    /\ RestIdle

NextManager ==
    \/ StartCall
    \/ StartBinary
    \/ StartSpawn
    \/ Crash
    \/ StopCall
    \/ StopAwaited
    \/ StopExited
    \/ \E i \in 1..MaxProcs :
          \/ MonitorTop(i)
          \/ MonitorWaited(i)
          \/ MonitorCrashed(i)
          \/ MonitorWake(i)
          \/ MonitorSpawn(i)

ManagerSpec == InitManager /\ [][NextManager]_vars

\* C22 (as claimed): the monitor restarts the subprocess at most
\* _MAX_RESTART_ATTEMPTS times in a row: after five automatic restarts with
\* no start() by a caller in between, no further subprocess is started.
C22_RestartsBounded == manager.streak <= 5

\* every start() sets _restart_count to 0 before it creates the monitor, so
\* a monitor finds the count at 0 when its subprocess exits: it never gives
\* up, and the delay it computes is the base delay
RestartCountNeverGrows ==
    /\ manager.restart_count <= 1
    /\ \A i \in DOMAIN manager.tasks :
          /\ manager.tasks[i].pc \in {"start", "wait", "stderr"}
                => manager.restart_count = 0
          /\ manager.tasks[i].backoff \in {0, RESTART_BACKOFF_BASE}

\* C23 (as claimed): before the restart that follows k earlier automatic
\* restarts in a row the monitor sleeps min(2 * 2^k, 60) seconds.
C23_BackoffGrows ==
    \A i \in DOMAIN manager.tasks :
        (manager.tasks[i].pc = "sleep" /\ manager.streak <= 5) =>
            manager.tasks[i].backoff =
                CASE manager.streak = 0 -> 2
                  [] manager.streak = 1 -> 4
                  [] manager.streak = 2 -> 8
                  [] manager.streak = 3 -> 16
                  [] manager.streak = 4 -> 32
                  [] OTHER -> 60

\* C30: once stop() has returned and until start() is called again, _process
\* and _monitor_task are None, no subprocess the manager spawned is alive, no
\* monitor task is unfinished, and no subprocess has been spawned since.
C30_StoppedStaysStopped ==
    manager.stopped =>
        /\ manager.process = 0
        /\ manager.monitor = 0
        /\ manager.stopping
        /\ \A p \in DOMAIN manager.procs : ~manager.procs[p].alive
        /\ \A i \in DOMAIN manager.tasks : manager.tasks[i].pc = "done"
        /\ Len(manager.procs) = manager.atStop

\* C30 witness: stop() returned after it had cancelled a monitor that was
\* in its backoff sleep or in the restart, following an earlier automatic
\* restart.
C30_Witness ==
    /\ manager.stopped
    /\ manager.streak >= 1
    /\ \E i \in DOMAIN manager.tasks :
          /\ manager.tasks[i].cancelled
          /\ manager.tasks[i].backoff = 2
          /\ manager.tasks[i].pc = "done"

-----------------------------------------------------------------------------
(* AppleTVBridge: connect() and disconnect() called by the setup and the     *)
(* unloading of a config entry, next to schedule_reconnect and the loops.    *)

MaxBridgeSteps == 4    \* calls of methods of the bridge from outside in one run

\* one more call of a method of the bridge may be made from outside
MoreBridgeOps == bridge.ops + bridge.calls < MaxBridgeSteps

\* schedule_reconnect called next to connect() and disconnect()
ScheduleCall == MoreBridgeOps /\ ScheduleReconnect

\* the setup of a config entry calls connect() on the bridge it constructed,
\* and a caller may connect again what it disconnected
ConnectAllowed == bridge.ops = 0 \/ bridge.disconnected

\* connect() called from outside, up to "await pyatv.scan"
ConnectCall ==
    /\ bridge.op.name = "none"
    /\ MoreBridgeOps
    /\ ConnectAllowed
    /\ bridge' = [bridge EXCEPT !.ops = @ + 1, !.disconnected = FALSE,
                                !.closing = FALSE,
                                !.op = [NoOp EXCEPT !.name = "connect", !.pc = "scan"]]
    /\ BridgeOnly

\* pyatv.scan of that call returns or raises
ConnectScanned ==
    /\ bridge.op.name = "connect" /\ bridge.op.pc = "scan"
    /\ \E outcome \in {"raised", "empty", "found"} :
          bridge' = IF outcome = "found"
                    THEN [bridge EXCEPT !.op.pc = "connect"]
                    ELSE [bridge EXCEPT !.op = NoOp]
    /\ BridgeOnly

\* pyatv.connect of that call returns or raises
ConnectReturned ==
    /\ bridge.op.name = "connect" /\ bridge.op.pc = "connect"
    /\ \E outcome \in {"connected", "refused", "other"} :
          bridge' = IF outcome = "connected"
                    THEN [bridge EXCEPT !.op = NoOp, !.atv = TRUE, !.count = 0,
                                        !.failed = 0]
                    ELSE [bridge EXCEPT !.op = NoOp]
    /\ BridgeOnly

\* disconnect() from "if self._atv is not None" to its return
Disconnected(b) ==
    [b EXCEPT !.atv = FALSE, !.op = NoOp, !.disconnected = TRUE,
              !.atReturn = Len(b.tasks)]

\* disconnect() up to "await self._reconnect_task"
DisconnectCall ==
    /\ bridge.op.name = "none"
    /\ MoreBridgeOps
    /\ bridge' =
          LET b == [bridge EXCEPT !.ops = @ + 1, !.closing = TRUE]
          IN  IF b.task # 0
              THEN [b EXCEPT !.tasks[b.task].cancelled = ~TaskDone(b.tasks[b.task]),
                             !.op = [NoOp EXCEPT !.name = "disconnect",
                                       !.pc = "await_task", !.task = b.task]]
              ELSE Disconnected(b)
    /\ BridgeOnly

\* disconnect() goes on without waiting for the task
TaskEndedAlways(i) == TRUE

\* "await self._reconnect_task" is over
TaskEnded(i) == TaskDone(bridge.tasks[i])

\* the awaited task has ended: its CancelledError is swallowed, any other
\* exception it ended with leaves disconnect() at the await
DisconnectAwaited ==
    /\ bridge.op.name = "disconnect" /\ bridge.op.pc = "await_task"
    /\ TaskEnded(bridge.op.task)
    /\ bridge' =
          IF bridge.op.task \in bridge.crashed
          THEN [bridge EXCEPT !.op = NoOp]
          ELSE Disconnected([bridge EXCEPT !.task = 0])
    /\ BridgeOnly

NextBridge ==
    \/ ScheduleCall
    \/ \E i \in 1..MaxCalls :
          \/ LoopTop(i)
          \/ LoopWake(i)
          \/ ScanDone(i)
          \/ ConnectDone(i)
    \/ ConnectCall
    \/ ConnectScanned
    \/ ConnectReturned
    \/ DisconnectCall
    \/ DisconnectAwaited

BridgeSpec == InitReconnect /\ [][NextBridge]_vars

\* C29: once disconnect() has returned and until connect() is called again,
\* is_connected is false, no reconnection loop is unfinished, _closing is set
\* and _reconnect_task is None, so that schedule_reconnect creates no task
\* and no connect attempt is made.
C29_DisconnectedStays ==
    bridge.disconnected =>
        /\ ~bridge.atv
        /\ Running = {}
        /\ bridge.closing
        /\ bridge.task = 0
        /\ Len(bridge.tasks) = bridge.atReturn

\* C29 witness: disconnect() returned after it had cancelled a loop that was
\* inside connect(), and schedule_reconnect was called afterwards.
C29_Witness ==
    /\ bridge.disconnected
    /\ bridge.calls = 2
    /\ Len(bridge.tasks) = 1
    /\ bridge.tasks[1].cancelled
    /\ bridge.tasks[1].attempts = 1
    /\ bridge.tasks[1].pc = "done"

-----------------------------------------------------------------------------
(* The config flow: zeroconf discovery, confirmation and PIN pairing through *)
(* CLIAirplayManager.pair, which runs the helper binary once.                *)

MaxText == 2                   \* characters of a PIN or of the helper's output
MaxAttempts == 2               \* submissions of the pair form in one flow
AIRPLAY2_FEATURE_BIT == 38     \* the bit of _AIRPLAY2_FEATURE_BIT = 1 << 38

\* a blank and a character that is not one
TextChars == {" ", "x"}

\* PINs a user types and outputs the helper binary writes
Texts == UNION {[1..n -> TextChars] : n \in 0..MaxText}

\* the features TXT property: absent, empty, not a number, or an integer
\* literal given by the set of the bits set in it
FeatureValues ==
    {None, Some("")}
        \cup {[none |-> FALSE, text |-> "0x,0x", bits |-> {}]}
        \cup {[none |-> FALSE, text |-> "int", bits |-> b] :
                  b \in SUBSET {0, AIRPLAY2_FEATURE_BIT}}

FlowOnly ==
    UNCHANGED <<targets, pairings, cmd, pc, session, ret, acc, resp, hs, exc, result,
                loaded, wire, hist, recvLog, broken, outstanding, excess, verified,
                pairings0, accessory, aeadLog, conns, returned, link, probe, bridge,
                manager, entry, pairers>>

RECURSIVE LStrip(_)
\* str.lstrip for blanks
LStrip(s) == IF s # <<>> /\ Head(s) = " " THEN LStrip(Tail(s)) ELSE s

RECURSIVE RStrip(_)
\* str.rstrip for blanks
RStrip(s) ==
    IF s # <<>> /\ s[Len(s)] = " " THEN RStrip(SubSeq(s, 1, Len(s) - 1)) ELSE s

\* str.strip
Strip(s) == RStrip(LStrip(s))

\* _is_airplay2: falsy and unparseable values give False, an integer gives
\* its bit 38
IsAirplay2(f) ==
    IF f.none \/ f.text = "" THEN FALSE
    ELSE IF f.text # "int" THEN FALSE
    ELSE AIRPLAY2_FEATURE_BIT \in f.bits

\* what one run of the helper binary can come to
Runs ==
    {[outcome |-> o, stdout |-> <<>>] :
        o \in {"no_binary", "timeout", "oserror", "exit_nonzero"}}
        \cup {[outcome |-> "ok", stdout |-> t] : t \in Texts}

\* _run_command: the exception it raises, or the stripped standard output
RunCommand(r) ==
    IF r.outcome = "no_binary"
    THEN [exc |-> "BinaryNotFoundError", out |-> <<>>]
    ELSE IF r.outcome \in {"timeout", "oserror", "exit_nonzero"}
    THEN [exc |-> "CLIAirplayConnectionError", out |-> <<>>]
    ELSE [exc |-> "none", out |-> Strip(r.stdout)]

\* pair() without the test for empty credentials
PairKeepsEmpty(r) ==
    LET res == RunCommand(r)
    IN  IF res.exc = "CLIAirplayConnectionError"
        THEN [exc |-> "CLIAirplayAuthenticationError", credentials |-> None]
        ELSE [exc |-> res.exc, credentials |-> Some(Strip(res.out))]

\* CLIAirplayManager.pair: the exception it raises, or the credentials of
\* the dict it returns
Pair(r) ==
    LET res == RunCommand(r)
    IN  IF res.exc = "CLIAirplayConnectionError"
        THEN [exc |-> "CLIAirplayAuthenticationError", credentials |-> None]
        ELSE IF res.exc # "none"
        THEN [exc |-> res.exc, credentials |-> None]
        ELSE IF Strip(res.out) = <<>>
        THEN [exc |-> "CLIAirplayAuthenticationError", credentials |-> None]
        ELSE [exc |-> "none", credentials |-> Some(Strip(res.out))]

\* async_step_zeroconf
Zeroconf ==
    /\ flow.step = "none"
    /\ \E device_id \in {"", "id"}, configured \in BOOLEAN, apple_tv \in BOOLEAN,
          features \in FeatureValues :
          flow' =
              IF device_id = ""
              THEN [flow EXCEPT !.step = "abort", !.reason = "no_devices_found"]
              ELSE IF configured \/ apple_tv
              THEN [flow EXCEPT !.step = "abort", !.reason = "already_configured"]
              ELSE [flow EXCEPT !.step = "zeroconf_confirm", !.features = features,
                                !.is_airplay2 = IsAirplay2(features)]
    /\ FlowOnly

\* async_step_zeroconf_confirm, with async_step_pair() for an AirPlay 2 device
ZeroconfConfirm ==
    /\ flow.step = "zeroconf_confirm"
    /\ \E confirmed \in BOOLEAN :
          flow' =
              IF ~confirmed
              THEN flow
              ELSE IF flow.is_airplay2
              THEN [flow EXCEPT !.step = "pair"]
              ELSE [flow EXCEPT !.step = "entry", !.created = TRUE,
                                !.credentials = None]
    /\ FlowOnly

\* async_step_pair with the form's input
PairSubmit ==
    /\ flow.step = "pair"
    /\ flow.attempts < MaxAttempts
    /\ \E pin \in Texts, r \in Runs :
          LET tried == Strip(pin) # <<>>
              p == Pair(r)
              f == [flow EXCEPT !.attempts = @ + 1,
                                !.last = IF tried
                                         THEN [pin |-> pin, outcome |-> r.outcome,
                                               stdout |-> r.stdout, raised |-> p.exc]
                                         ELSE [NoAttempt EXCEPT !.pin = pin,
                                                                !.outcome = "no_pin"]]
          IN  flow' =
                  IF ~tried
                  THEN [f EXCEPT !.errors = [pin |-> "invalid_pin", base |-> ""]]
                  ELSE IF p.exc = "CLIAirplayAuthenticationError"
                  THEN [f EXCEPT !.errors = [pin |-> "invalid_pin", base |-> ""]]
                  ELSE IF p.exc = "CLIAirplayConnectionError"
                  THEN [f EXCEPT !.errors = [pin |-> "", base |-> "cannot_connect"]]
                  ELSE IF p.exc # "none"
                  THEN [f EXCEPT !.errors = [pin |-> "", base |-> "unknown"]]
                  ELSE [f EXCEPT !.step = "entry", !.created = TRUE,
                                 !.credentials = p.credentials,
                                 !.errors = [pin |-> "", base |-> ""]]
    /\ FlowOnly

NextFlow ==
    \/ Zeroconf
    \/ ZeroconfConfirm
    \/ PairSubmit

FlowSpec == InitManager /\ [][NextFlow]_vars

\* C24 (as claimed): after a pairing attempt that ended in a timeout or in a
\* failure to execute the binary, pair() has raised CLIAirplayConnectionError
\* and the form shows cannot_connect.
C24_CommunicationFailureReported ==
    flow.last.outcome \in {"timeout", "oserror"} =>
        /\ flow.last.raised = "CLIAirplayConnectionError"
        /\ flow.errors.base = "cannot_connect"

\* what the code does instead: pair() never raises CLIAirplayConnectionError
\* and the form never shows cannot_connect; every failure of the command
\* shows invalid_pin
PairNeverReportsConnection ==
    /\ flow.last.raised # "CLIAirplayConnectionError"
    /\ flow.errors.base # "cannot_connect"
    /\ flow.last.outcome \in {"timeout", "oserror", "exit_nonzero"} =>
           flow.errors.pin = "invalid_pin"

\* the latest pairing attempt returned credentials
Paired ==
    /\ flow.last.outcome = "ok"
    /\ Strip(flow.last.pin) # <<>>
    /\ Strip(flow.last.stdout) # <<>>

\* C27: an entry for a device whose features have bit 38 exists only after a
\* pairing attempt that returned credentials, and stores them; an entry for
\* another device is created on confirmation, with credentials None and no
\* pairing attempt; after a failed attempt or an empty PIN there is no entry
\* and the pair form is shown with an error.
C27_EntryOnlyAfterPairing ==
    LET bit == ~flow.features.none /\ flow.features.text = "int"
                   /\ AIRPLAY2_FEATURE_BIT \in flow.features.bits
    IN  /\ flow.created /\ bit =>
               /\ Paired
               /\ flow.credentials = Some(Strip(flow.last.stdout))
        /\ flow.created /\ ~bit =>
               /\ flow.credentials = None
               /\ flow.attempts = 0
        /\ flow.attempts > 0 /\ ~Paired =>
               /\ ~flow.created
               /\ flow.step = "pair"
               /\ flow.errors.pin # "" \/ flow.errors.base # ""
        /\ flow.created <=> flow.step = "entry"

\* C27 witness: a second pairing attempt succeeded after a failed one and the
\* entry holds the credentials the helper printed, stripped.
C27_Witness ==
    /\ flow.step = "entry"
    /\ flow.attempts = 2
    /\ flow.last.stdout = <<"x", " ">>
    /\ flow.credentials = Some(<<"x">>)

-----------------------------------------------------------------------------
(* A config entry: async_setup_entry, which starts the manager, looks for an *)
(* Apple TV and runs the first refresh, and the polls of the coordinator     *)
(* next to the reconnection loops of the bridge.                             *)

MaxPolls == 3                  \* polls of the coordinator, the first refresh included

EntryOnly ==
    UNCHANGED <<targets, pairings, cmd, pc, session, ret, acc, resp, hs, exc, result,
                loaded, wire, hist, recvLog, broken, outstanding, excess, verified,
                pairings0, accessory, aeadLog, conns, returned, link, probe, manager,
                flow, pairers>>

\* the exceptions of connect() the setup answers by going on without a bridge
HandledConnectionOnly(e) == e = "ConnectionError"

\* except (ConnectionError, RuntimeError)
Handled(e) == e \in {"ConnectionError", "RuntimeError"}

\* async_setup_entry after "await apple_tv_bridge.connect()" ended with the
\* exception e ("none" when it returned); why tells what became of the
\* Apple TV
AfterConnect(why, e) ==
    IF e = "none"
    THEN [entry EXCEPT !.pc = "coordinator", !.has_bridge = TRUE, !.atv = why]
    ELSE IF Handled(e)
    THEN [entry EXCEPT !.pc = "coordinator", !.has_bridge = FALSE, !.atv = why]
    ELSE [entry EXCEPT !.pc = "failed", !.has_bridge = TRUE, !.atv = why,
                       !.raised = e, !.at = "connect"]

\* async_setup_entry up to "await manager.start()"
SetupCall ==
    /\ entry.pc = "none"
    /\ \E atv_id \in BOOLEAN, pyatv \in BOOLEAN :
          entry' = [entry EXCEPT !.pc = "start", !.atv_id = atv_id, !.pyatv = pyatv]
    /\ UNCHANGED bridge
    /\ EntryOnly

\* manager.start() returns or raises; with an Apple TV configured connect()
\* runs up to "await pyatv.scan", else find_apple_tv does
SetupStarted ==
    /\ entry.pc = "start"
    /\ \E outcome \in {"started", "BinaryNotFoundError", "OSError"} :
          IF outcome # "started"
          THEN /\ entry' = [entry EXCEPT !.pc = "failed", !.at = "start",
                                         !.raised = "ConfigEntryNotReady"]
               /\ UNCHANGED bridge
          ELSE IF ~entry.pyatv
          THEN /\ entry' = IF entry.atv_id
                           THEN AfterConnect("no_pyatv", "RuntimeError")
                           ELSE [entry EXCEPT !.pc = "coordinator",
                                              !.atv = "none_found"]
               /\ UNCHANGED bridge
          ELSE IF entry.atv_id
          THEN /\ entry' = [entry EXCEPT !.pc = "scan"]
               /\ bridge' = [bridge EXCEPT !.closing = FALSE]
          ELSE /\ entry' = [entry EXCEPT !.pc = "find"]
               /\ UNCHANGED bridge
    /\ EntryOnly

\* pyatv.scan of find_apple_tv returns or raises; for the first Apple TV
\* with MRP connect() runs up to "await pyatv.scan"
SetupFound ==
    /\ entry.pc = "find"
    /\ \E outcome \in {"raised", "no_mrp", "found"} :
          IF outcome = "found"
          THEN /\ entry' = [entry EXCEPT !.pc = "scan"]
               /\ bridge' = [bridge EXCEPT !.closing = FALSE]
          ELSE /\ entry' = [entry EXCEPT !.pc = "coordinator", !.atv = "none_found"]
               /\ UNCHANGED bridge
    /\ EntryOnly

\* pyatv.scan of connect() returns or raises
SetupScanned ==
    /\ entry.pc = "scan"
    /\ \E outcome \in {"raised", "empty", "found"} :
          entry' = IF outcome = "found"
                   THEN [entry EXCEPT !.pc = "connect"]
                   ELSE AfterConnect(IF outcome = "raised" THEN "scan_failed"
                                     ELSE "not_found", "ConnectionError")
    /\ UNCHANGED bridge
    /\ EntryOnly

\* pyatv.connect of connect() returns or raises
SetupConnected ==
    /\ entry.pc = "connect"
    /\ \E outcome \in {"connected", "refused", "other"} :
          IF outcome = "connected"
          THEN /\ entry' = AfterConnect("connected", "none")
               /\ bridge' = [bridge EXCEPT !.atv = TRUE, !.count = 0, !.failed = 0]
          ELSE /\ entry' = AfterConnect(outcome,
                               IF outcome = "refused" THEN "ConnectionError"
                               ELSE "other")
               /\ UNCHANGED bridge
    /\ EntryOnly

\* _async_update_data up to "await self.manager.get_volume()"
NewPoll == [NoPoll EXCEPT !.pc = "volume"]

\* the coordinator is made and its first refresh starts
SetupRefresh ==
    /\ entry.pc = "coordinator"
    /\ entry' = [entry EXCEPT !.pc = "refresh", !.poll = NewPoll, !.polls = @ + 1]
    /\ UNCHANGED bridge
    /\ EntryOnly

\* the first refresh ended: an exception of it ends the setup
SetupRefreshed ==
    /\ entry.pc = "refresh"
    /\ entry.poll.pc \in {"returned", "raised"}
    /\ entry' = IF entry.poll.pc = "returned"
                THEN [entry EXCEPT !.pc = "done"]
                ELSE [entry EXCEPT !.pc = "failed", !.at = "refresh",
                                   !.raised = IF entry.poll.raised = "UpdateFailed"
                                              THEN "ConfigEntryNotReady"
                                              ELSE entry.poll.raised]
    /\ UNCHANGED bridge
    /\ EntryOnly

\* a later poll starts when the one before it has ended
PollCall ==
    /\ entry.pc = "done"
    /\ entry.poll.pc \in {"returned", "raised"}
    /\ entry.polls < MaxPolls
    /\ entry' = [entry EXCEPT !.poll = NewPoll, !.polls = @ + 1]
    /\ UNCHANGED bridge
    /\ EntryOnly

\* what a run of the helper binary in a poll can come to, and why: the
\* speaker rejected the credentials, the speaker did not answer, or the
\* binary could not be executed
PollRuns(outputs) ==
    {[outcome |-> "exit_nonzero", cause |-> c, stdout |-> ""] :
        c \in {"rejected", "unreachable"}}
        \cup {[outcome |-> "timeout", cause |-> "unreachable", stdout |-> ""],
               [outcome |-> "oserror", cause |-> "local", stdout |-> ""]}
        \cup {[outcome |-> "ok", cause |-> "none", stdout |-> t] : t \in outputs}

\* what "volume get" prints: not a number, or the number given
VolumeOutputs == {"", "loud", "-5", "50", "150"}

\* int(): the number a text stands for, none for a text that is not one
ToInt(t) ==
    IF t = "-5" THEN [none |-> FALSE, n |-> 0 - 5]
    ELSE IF t = "50" THEN [none |-> FALSE, n |-> 50]
    ELSE IF t = "150" THEN [none |-> FALSE, n |-> 150]
    ELSE [none |-> TRUE, n |-> 0]

\* the exception _run_command raises for a run, "none" when it returns
RunRaises(r) == IF r.outcome = "ok" THEN "none" ELSE "CLIAirplayConnectionError"

\* get_volume: an exception, or the volume in hundredths, clamped
GetVolume(r) ==
    IF RunRaises(r) # "none" THEN [exc |-> RunRaises(r), volume |-> 0]
    ELSE IF ToInt(r.stdout).none
    THEN [exc |-> "CLIAirplayConnectionError", volume |-> 0]
    ELSE [exc |-> "none",
          volume |-> IF ToInt(r.stdout).n < 0 THEN 0
                     ELSE Min(100, ToInt(r.stdout).n)]

\* what "mute get" prints
MutedOutputs == {"", "true", "True", "1", "muted", "false"}

\* str.lower() on what "mute get" prints
LowerText(t) == IF t = "True" THEN "true" ELSE t

\* get_muted
GetMuted(r) ==
    [exc |-> RunRaises(r), muted |-> LowerText(r.stdout) \in {"true", "1", "muted"}]

\* the exception _async_update_data raises for one of the manager
PollRaises(e) ==
    IF e = "CLIAirplayAuthenticationError" THEN "ConfigEntryAuthFailed"
    ELSE IF e = "CLIAirplayConnectionError" THEN "UpdateFailed"
    ELSE e

\* get_volume returns or raises
PollVolume ==
    /\ entry.poll.pc = "volume"
    /\ \E r \in PollRuns(VolumeOutputs) :
          LET v == GetVolume(r)
          IN  entry' =
                  IF v.exc # "none"
                  THEN [entry EXCEPT !.poll.pc = "raised", !.poll.cause = r.cause,
                                     !.poll.raised = PollRaises(v.exc)]
                  ELSE [entry EXCEPT !.poll.pc = "muted", !.poll.volume = v.volume]
    /\ UNCHANGED bridge
    /\ EntryOnly

\* the bridge is asked only when there is one and it is connected
AskBridgeAlways == TRUE

\* self.apple_tv_bridge is not None and self.apple_tv_bridge.is_connected
AskBridge == entry.has_bridge /\ bridge.atv

\* get_muted returns or raises; with a connected bridge the poll goes on to
\* "await atv.metadata.playing()", else it returns
PollMuted ==
    /\ entry.poll.pc = "muted"
    /\ \E r \in PollRuns(MutedOutputs) :
          LET m == GetMuted(r)
              data == [NoData EXCEPT !.volume = entry.poll.volume, !.muted = m.muted]
          IN  entry' =
                  IF m.exc # "none"
                  THEN [entry EXCEPT !.poll.pc = "raised", !.poll.cause = r.cause,
                                     !.poll.raised = PollRaises(m.exc)]
                  ELSE [entry EXCEPT !.poll.read = TRUE, !.poll.data = data,
                                     !.poll.connected = entry.has_bridge /\ bridge.atv,
                                     !.poll.pc = IF AskBridge THEN "playing"
                                                 ELSE "returned",
                                     !.poll.asked = IF AskBridge THEN "asked"
                                                    ELSE "none"]
    /\ UNCHANGED bridge
    /\ EntryOnly

\* what atv.metadata.playing() returns, with the device state as
\* get_playing_state names it
Playings ==
    {[state |-> "playing", title |-> "song", artist |-> "band", position |-> "12"],
     [state |-> "paused", title |-> "song", artist |-> "None", position |-> "12"],
     [state |-> "idle", title |-> "None", artist |-> "None", position |-> "None"],
     [state |-> "unknown", title |-> "None", artist |-> "None", position |-> "None"]}

\* atv.metadata.playing() returns, raises a ConnectionError, or raises
\* another exception
PollPlaying ==
    /\ entry.poll.pc = "playing"
    /\ \/ \E p \in Playings :
             /\ entry' = [entry EXCEPT
                             !.poll.pc = "returned", !.poll.asked = "answered",
                             !.poll.data = [@ EXCEPT !.playing = p.state = "playing",
                                                     !.playing_title = p.title,
                                                     !.playing_artist = p.artist,
                                                     !.media_position = p.position,
                                                     !.media_type = p.state]]
             /\ UNCHANGED bridge
       \/ /\ entry' = [entry EXCEPT !.poll.pc = "returned",
                                     !.poll.asked = "ConnectionError",
                                     !.poll.scheduled = TRUE]
          /\ bridge' = Scheduled(bridge)
       \/ /\ entry' = [entry EXCEPT !.poll.pc = "raised", !.poll.asked = "other",
                                     !.poll.raised = "other"]
          /\ UNCHANGED bridge
    /\ EntryOnly

\* a step of a reconnection loop of the entry's bridge
LoopStep ==
    /\ entry.has_bridge
    /\ \E i \in 1..MaxPolls :
          \/ LoopTop(i)
          \/ LoopWake(i)
          \/ ScanDone(i)
          \/ ConnectDone(i)

NextEntry ==
    \/ SetupCall
    \/ SetupStarted
    \/ SetupFound
    \/ SetupScanned
    \/ SetupConnected
    \/ SetupRefresh
    \/ SetupRefreshed
    \/ PollCall
    \/ PollVolume
    \/ PollMuted
    \/ PollPlaying
    \/ LoopStep

EntrySpec == InitManager /\ [][NextEntry]_vars

\* a poll has ended
PollEnded == entry.poll.pc \in {"returned", "raised"}

\* C25 (as claimed): a poll in which the speaker rejected the credentials
\* raises ConfigEntryAuthFailed.
C25_RejectedCredentialsRaiseAuthFailed ==
    PollEnded /\ entry.poll.cause = "rejected" =>
        entry.poll.raised = "ConfigEntryAuthFailed"

\* what the code does: no poll raises ConfigEntryAuthFailed, and a poll in
\* which a run of the helper binary failed, for whatever reason, or printed
\* a volume that is not a number raises UpdateFailed
PollNeverRaisesAuthFailed ==
    /\ entry.poll.raised # "ConfigEntryAuthFailed"
    /\ PollEnded /\ entry.poll.cause # "none" => entry.poll.raised = "UpdateFailed"

\* C26 (as claimed): a poll in which the call of the Apple TV raised an
\* exception returns the volume and the mute state read, with playing = False
\* and the media fields None, and has called schedule_reconnect.
C26_BridgeFailureNeverFailsPoll ==
    entry.poll.asked \in {"ConnectionError", "other"} =>
        /\ entry.poll.pc = "returned"
        /\ entry.poll.data = [NoData EXCEPT !.volume = entry.poll.volume,
                                            !.muted = entry.poll.data.muted]
        /\ entry.poll.scheduled

\* what the code does: a ConnectionError of the call is answered as claimed,
\* any other exception ends the poll with that exception, and the Apple TV
\* is asked only by a poll that read volume and mute and found the bridge
\* connected
PollAnswersConnectionErrorOnly ==
    /\ entry.poll.asked = "ConnectionError" =>
           /\ entry.poll.pc = "returned"
           /\ entry.poll.data = [NoData EXCEPT !.volume = entry.poll.volume,
                                               !.muted = entry.poll.data.muted]
           /\ entry.poll.scheduled
    /\ entry.poll.asked = "other" =>
           /\ entry.poll.pc = "raised"
           /\ entry.poll.raised = "other"
           /\ ~entry.poll.scheduled
    /\ entry.poll.asked # "none" => entry.poll.read /\ entry.poll.connected
    /\ entry.poll.scheduled => entry.poll.asked = "ConnectionError"

\* C28: when connect() raised RuntimeError (pyatv is missing) or
\* ConnectionError (the scan failed, found nothing, or the connection was
\* refused), or find_apple_tv found no Apple TV, the setup goes on without a
\* bridge to the coordinator and its first refresh, and fails only if that
\* refresh does.
C28_SetupGoesOnWithoutAppleTV ==
    entry.atv \in {"no_pyatv", "scan_failed", "not_found", "refused", "none_found"} =>
        /\ ~entry.has_bridge
        /\ entry.pc \in {"coordinator", "refresh", "done", "failed"}
        /\ entry.pc = "failed" => entry.at = "refresh" /\ entry.poll.pc = "raised"
        /\ entry.poll.asked = "none"

\* C28 witness: the setup of an entry with a configured Apple TV ended well
\* without pyatv, connect() having raised RuntimeError, and a later poll
\* returned.
C28_Witness ==
    /\ entry.atv = "no_pyatv"
    /\ entry.atv_id
    /\ entry.pc = "done"
    /\ entry.polls = 2
    /\ entry.poll.pc = "returned"

-----------------------------------------------------------------------------
(* The media-player entity of a config entry: playback commands go to the    *)
(* Apple TV bridge, volume, mute and play-media commands to the helper       *)
(* binary, and a command that succeeded asks the coordinator for a refresh.  *)

MaxCommands == 2               \* commands given to the entity

\* async_media_play, _pause, _stop, _next_track, _previous_track
PlaybackCommands == {"media_play", "media_pause", "media_stop", "media_next_track",
                     "media_previous_track"}

\* async_set_volume_level, _volume_up, _volume_down, _mute_volume, _play_media
SpeakerCommands == {"set_volume_level", "volume_up", "volume_down", "mute_volume",
                    "play_media"}

\* every entity has a bridge to send to
ConnectedBridgeAlways == TRUE

\* the property _apple_tv_bridge is not None
ConnectedBridge == entry.has_bridge /\ bridge.atv

\* a command handler up to its await: a playback command without a
\* connected bridge returns at once
CommandCall ==
    /\ entry.pc = "done"
    /\ entry.command.pc \in {"none", "done"}
    /\ entry.commands < MaxCommands
    /\ \E name \in PlaybackCommands \cup SpeakerCommands :
          LET c == [NoCommand EXCEPT !.name = name,
                                     !.connected = entry.has_bridge /\ bridge.atv]
          IN  entry' =
                  [entry EXCEPT
                     !.commands = @ + 1,
                     !.command =
                        IF name \in PlaybackCommands /\ ~ConnectedBridge
                        THEN [c EXCEPT !.pc = "done", !.outcome = "no_bridge"]
                        ELSE [c EXCEPT !.pc = "sent", !.sent = TRUE]]
    /\ UNCHANGED bridge
    /\ EntryOnly

\* what the call of a command can come to: the remote control of the Apple
\* TV or one run of the helper binary
CommandOutcomes(name) ==
    IF name \in PlaybackCommands
    THEN {"ok", "ConnectionError", "other"}
    ELSE {"ok", "CLIAirplayConnectionError"}

\* the exceptions after which a handler returns without a refresh
Caught(name) ==
    IF name \in PlaybackCommands THEN {"ConnectionError"}
    ELSE {"CLIAirplayConnectionError"}

\* the call returns or raises: a caught exception ends the handler, any
\* other leaves it, a return is followed by async_request_refresh
CommandDone ==
    /\ entry.command.pc = "sent"
    /\ \E outcome \in CommandOutcomes(entry.command.name) :
          entry' =
              IF outcome = "ok"
              THEN [entry EXCEPT !.command.pc = "done", !.command.outcome = outcome,
                                 !.command.refreshes = @ + 1, !.requested = @ + 1]
              ELSE [entry EXCEPT !.command.pc = "done", !.command.outcome = outcome]
    /\ UNCHANGED bridge
    /\ EntryOnly

NextPlayer ==
    \/ SetupCall
    \/ SetupStarted
    \/ SetupFound
    \/ SetupScanned
    \/ SetupConnected
    \/ SetupRefresh
    \/ SetupRefreshed
    \/ PollVolume
    \/ PollMuted
    \/ PollPlaying
    \/ LoopStep
    \/ CommandCall
    \/ CommandDone

PlayerSpec == InitManager /\ [][NextPlayer]_vars

\* C31: a command that has ended requested one refresh if its call returned
\* and none if the call raised CLIAirplayConnectionError or ConnectionError;
\* a playback command given while the bridge was missing or not connected
\* sent nothing and requested no refresh, and every other command was sent.
C31_RefreshOnlyAfterSuccess ==
    LET c == entry.command
    IN  /\ c.pc = "done" /\ c.outcome = "ok" => c.refreshes = 1
        /\ c.outcome \in {"CLIAirplayConnectionError", "ConnectionError"} =>
               c.refreshes = 0
        /\ c.name \in PlaybackCommands /\ ~c.connected =>
               ~c.sent /\ c.refreshes = 0 /\ c.outcome = "no_bridge"
        /\ c.name \in SpeakerCommands \/ c.connected => c.sent
        /\ c.pc # "done" => c.refreshes = 0
        /\ entry.requested <= entry.commands
        /\ entry.commands = 1 =>
               entry.requested = IF c.pc = "done" /\ c.outcome = "ok" THEN 1 ELSE 0

\* C31 witness: a playback command was dropped for want of a bridge after a
\* command to the speaker had succeeded and requested its refresh.
C31_Witness ==
    /\ entry.commands = 2
    /\ entry.requested = 1
    /\ entry.command.name = "media_pause"
    /\ entry.command.outcome = "no_bridge"
    /\ entry.command.pc = "done"

-----------------------------------------------------------------------------
(* The connections of a command *)

\* C32 (as claimed): a command that has ended has closed every connection it
\* opened, whichever way it ended, a failed pair-verify included.
C32_ConnectionsClosed == pc = "done" => conns.closed = conns.opened

\* the part of C32 that holds: a pair command, and a list, get or set command
\* that got past _get_session, close the connection they opened
ClosedUnlessVerifyFailed ==
    pc = "done" /\ (cmd.name = "pair" \/ verified) => conns.closed = conns.opened

\* the failing case of C32: pair-verify raised on an open connection
VerifyFailedOpen ==
    /\ pc = "done"
    /\ cmd.name \in {"list", "get", "set"}
    /\ exc # "none"
    /\ conns = [opened |-> 1, closed |-> 0]

-----------------------------------------------------------------------------
(* Error statuses *)

\* C33 (as claimed): http_request returns no response whose status is 400 or
\* above, on the plain and on the encrypted path, and when the plain reader
\* raises for such a status the whole declared body has been read.
C33_ErrorStatusFails ==
    /\ ~returned.error
    /\ exc = "http" => acc.hdr /\ acc.body = acc.cl /\ ~outstanding

\* the part of C33 that holds: the plain reader returns no response with an
\* error status, and raises for one with the declared body read in full
PlainErrorStatusFails ==
    /\ returned.error => returned.frames > 0
    /\ exc = "http" =>
          /\ acc.status >= ErrorStatus
          /\ acc.frames = 0
          /\ acc.hdr /\ acc.body = acc.cl /\ ~outstanding

\* the plain reader raised for an error status with a body
PlainErrorRaised == exc = "http" /\ acc.cl > 0 /\ acc.body = acc.cl

\* the failing case of C33: a response with an error status was returned whole
\* by the encrypted reader
EncryptedErrorReturned ==
    /\ returned.error
    /\ returned.hdr
    /\ returned.body = returned.cl
    /\ pc \in AfterPcs

-----------------------------------------------------------------------------
(* Two pair commands on one pairing file *)

\* what a step of cmd_pair in one of the two processes leaves alone
PairersOnly ==
    UNCHANGED <<targets, cmd, pc, session, ret, acc, resp, hs, exc, result, loaded,
                wire, hist, recvLog, broken, outstanding, excess, verified,
                pairings0, accessory, aeadLog, conns, returned, link, probe, bridge,
                manager, flow, entry>>

\* "python test_hap_volume.py pair host port code" in process i
CmdPairCall(i, ep) ==
    /\ pairers[i].pc = "idle"
    /\ pairers' = [pairers EXCEPT ![i] = [@ EXCEPT !.pc = "pair_setup", !.ep = ep]]
    /\ UNCHANGED pairings
    /\ PairersOnly

\* pair_setup returns the record of its handshake, or raises
CmdPairSetup(i) ==
    /\ pairers[i].pc = "pair_setup"
    /\ \/ \E k \in LTKeys, a \in AccKeys, id \in AccIds :
            pairers' = [pairers EXCEPT ![i] =
                [@ EXCEPT !.pc = "pair_load",
                          !.record = PairingRecord(k, a, id, pairers[i].ep)]]
       \/ pairers' = [pairers EXCEPT ![i] =
                [@ EXCEPT !.pc = "finally", !.result = "error"]]
    /\ UNCHANGED pairings
    /\ PairersOnly

\* load_pairings: the whole file is read
CmdPairLoad(i) ==
    /\ pairers[i].pc = "pair_load"
    /\ pairers' = [pairers EXCEPT ![i] =
            [@ EXCEPT !.pc = "pair_save", !.loaded = pairings]]
    /\ UNCHANGED pairings
    /\ PairersOnly

\* "pairings[key] = pairing" and save_pairings: the whole file is written
CmdPairSave(i) ==
    /\ pairers[i].pc = "pair_save"
    /\ pairings' = StoreRecord(pairers[i].loaded, PairingKey(pairers[i].ep),
                               pairers[i].record)
    /\ pairers' = [pairers EXCEPT ![i] = [@ EXCEPT !.pc = "finally", !.result = "ok"]]
    /\ PairersOnly

\* the finally clause, and the process ends
CmdPairFinally(i) ==
    /\ pairers[i].pc = "finally"
    /\ pairers' = [pairers EXCEPT ![i] = [@ EXCEPT !.pc = "done"]]
    /\ UNCHANGED pairings
    /\ PairersOnly

NextPairers ==
    \/ \E i \in 1..2, ep \in targets : CmdPairCall(i, ep)
    \/ \E i \in 1..2 : CmdPairSetup(i)
    \/ \E i \in 1..2 : CmdPairLoad(i)
    \/ \E i \in 1..2 : CmdPairSave(i)
    \/ \E i \in 1..2 : CmdPairFinally(i)

PairersSpec == InitPair /\ [][NextPairers]_vars

\* both pair commands have ended well, for different accessories
BothPaired ==
    /\ \A i \in 1..2 : pairers[i].pc = "done" /\ pairers[i].result = "ok"
    /\ pairers[1].ep # pairers[2].ep

\* C34 (as claimed): once two pair commands for different accessories have
\* both ended well, the pairing file holds the record of each under its key.
C34_NoRecordLost ==
    BothPaired =>
        \A i \in 1..2 :
            /\ PairingKey(pairers[i].ep) \in DOMAIN pairings
            /\ pairings[PairingKey(pairers[i].ep)] = pairers[i].record

\* the part of C34 that holds: a record is missing only when the other
\* process had loaded the file before that record was saved
LostOnlyByStaleLoad ==
    BothPaired =>
        \A i \in 1..2 :
            PairingKey(pairers[i].ep) \notin DOMAIN pairings =>
                PairingKey(pairers[i].ep) \notin DOMAIN pairers[3 - i].loaded

\* the failing case of C34: both commands ended well and the file holds the
\* record of one of them only
RecordLost == BothPaired /\ Cardinality(DOMAIN pairings) = 1

\* the two commands ran one after the other and the file holds both records
BothRecordsKept == BothPaired /\ Cardinality(DOMAIN pairings) = 2

====
